---- MODULE Spec2Model ----
(***************************************************************************)
(* Decision-support analytics core: alert generation and its lifecycle,    *)
(* ML anomaly detection and the forecasting job that feed it, the          *)
(* composite risk score, z-score anomaly detection, the what-if scenario   *)
(* simulation, the weather fetch job and the ingestion of readings with    *)
(* its data-source bookkeeping.                                            *)
(*                                                                         *)
(* Storage (the ORM tables) is the shared state.  Every coroutine is a     *)
(* process whose steps are the stretches of code between two awaits on     *)
(* storage, so two requests interleave exactly where the event loop can    *)
(* switch between them.                                                    *)
(*                                                                         *)
(* Units: time is counted in quarter hours (Hours(h) = 4*h); thresholds    *)
(* and confidences are in hundredths (0.7 = 70); a stored risk score is in *)
(* hundred-thousandths (0.7 = Hundredths(70) = 70000), fine enough for the *)
(* weighted sum of component scores rounded to three decimals; forecast    *)
(* values are in hundredths of the metric's unit (AQI 100 = 10000).        *)
(***************************************************************************)
EXTENDS Integers, Sequences, FiniteSets, TLC

VARIABLES
    now,          \* datetime.utcnow(), in quarter hours
    alerts,       \* table alerts: sequence of Alert rows, id = index
    risk_scores,  \* table risk_scores: sequence of RiskScore rows
    anomalies,    \* table anomalies: sequence of Anomaly rows
    forecasts,    \* table forecasts: sequence of Forecast rows
    sources,      \* table data_sources: name -> row (or absent)
    env_data,     \* table environment_data: city -> sequence of rows
    traffic_data, \* table traffic_data: city -> sequence of rows
    service_data, \* table service_data: city -> sequence of rows
    call,         \* generate_all_alerts coroutines, one per request slot
    res,          \* resolve_alert coroutines, one per request slot
    last,         \* the last completed generate_all_alerts call (history)
    scenarios,    \* table scenarios: sequence of Scenario rows
    replies       \* <<what the latest analytics call answered>> (history)

vars == <<now, alerts, risk_scores, anomalies, forecasts, sources, env_data,
          traffic_data, service_data, call, res, last, scenarios, replies>>

facts == <<risk_scores, anomalies, forecasts, sources, env_data, traffic_data,
           service_data, scenarios>>

----------------------------------------------------------------------------
(* Bounds of the model *)

MaxTime == 112        \* the clock stops here
MaxAlerts == 2        \* no new request starts once the table holds this many
MaxRisk == 1          \* snapshots added by calculate_city_risk beyond Init
MaxAnomalies == 1     \* Anomaly rows
MaxForecasts == 1     \* Forecast rows inserted directly
MaxFailures == 3      \* cap of DataSource.failure_count
MaxFacts == 2         \* facts in storage, over all families

StartTime == 100      \* the clock at Init (history lies before it)

----------------------------------------------------------------------------
(* Program constants *)

Cities == {"c1", "c2"}                \* names with a City row
CityNames == Cities \cup {"nowhere"}  \* names a caller may pass
SourceNames == <<"sensor-a">>

NULL == 0 - 1                         \* an unset DatetimeField
None == 0 - 999999                   \* a null metric column

Hours(h) == 4 * h
Days(d) == 96 * d

\* x hundredths and x thousandths on the scale of a stored risk score
Hundredths(x) == x * 1000
Thousandths(x) == x * 100

RISK_THRESHOLDS_high == 70
RISK_THRESHOLDS_medium == 50
RISK_WINDOW_HOURS == 6
RISK_QUERY_LIMIT == 10
ANOMALY_WINDOW_HOURS == 2
FORECAST_WINDOW_HOURS == 24
ML_ANOMALY_CONFIDENCE_MIN == 60
ML_ANOMALY_CONFIDENCE_DOWNGRADE == 75
ML_WINDOW_HOURS == 24
ML_MIN_POINTS == 10
OFFLINE_AFTER_FAILURES == 3

FamilyOrder == <<"risk", "anomaly", "ml_anomaly", "forecast", "system">>

----------------------------------------------------------------------------
(* Sequence helpers *)

RECURSIVE Reverse(_)
Reverse(s) == IF s = <<>> THEN <<>> ELSE Append(Reverse(Tail(s)), Head(s))

Take(s, n) == IF Len(s) <= n THEN s ELSE SubSeq(s, 1, n)

RECURSIVE SumSeq(_)
SumSeq(s) == IF s = <<>> THEN 0 ELSE Head(s) + SumSeq(Tail(s))

Indices(s) == [i \in 1..Len(s) |-> i]

Min(a, b) == IF a <= b THEN a ELSE b

Abs(x) == IF x >= 0 THEN x ELSE 0 - x

RECURSIVE Insert(_, _, _)
\* insert id x into the id sequence s, sorted by key[], after equal keys
Insert(x, s, key) ==
    IF s = <<>> THEN <<x>>
    ELSE IF key[x] < key[Head(s)] THEN <<x>> \o s
    ELSE <<Head(s)>> \o Insert(x, Tail(s), key)

RECURSIVE SortBy(_, _)
\* stable ascending sort of the id sequence s by key[]
SortBy(s, key) ==
    IF s = <<>> THEN <<>>
    ELSE Insert(s[Len(s)], SortBy(SubSeq(s, 1, Len(s) - 1), key), key)

\* rows since the cutoff, ordered by timestamp
Since(rows, cutoff) ==
    LET ids == SelectSeq(Indices(rows), LAMBDA i : rows[i].timestamp >= cutoff)
    IN  [k \in 1..Len(ids) |-> rows[SortBy(ids, [i \in 1..Len(rows) |->
                                        rows[i].timestamp])[k]]]

----------------------------------------------------------------------------
(* Alert rows and the dedup lookup *)

NoAlert == [severity |-> "none", audience |-> "none"]

\* Alert.create(...): is_active and resolved_at take the column defaults
NewAlert(c, type, key, sig, sa, ref, info, p) ==
    [city |-> c, type |-> type, key |-> key, sig |-> sig,
     severity |-> sa.severity, audience |-> sa.audience,
     is_active |-> TRUE, resolved_at |-> NULL, acked |-> FALSE,
     ref |-> ref, info |-> info, by |-> p]

\* metadata__contains={key: sig} on an alert row
MetadataContains(a, key, sig) == a.key = key /\ a.sig = sig

\* the lookup with the filter is_active=False
ExistingAlertInactive(tbl, c, type, key, sig) ==
    \E i \in 1..Len(tbl) :
        /\ tbl[i].city = c
        /\ tbl[i].type = type
        /\ ~tbl[i].is_active
        /\ MetadataContains(tbl[i], key, sig)

\* Alert.filter(city=c, type=type, is_active=True,
\*              metadata__contains={key: sig}).first() is not None
ExistingAlert(tbl, c, type, key, sig) ==
    \E i \in 1..Len(tbl) :
        /\ tbl[i].city = c
        /\ tbl[i].type = type
        /\ tbl[i].is_active
        /\ MetadataContains(tbl[i], key, sig)

\* the lookup reading the metadata key "source_name"
ExistingSystemAlertWrongKey(tbl, sig) ==
    \E i \in 1..Len(tbl) :
        /\ tbl[i].type = "system"
        /\ tbl[i].is_active
        /\ MetadataContains(tbl[i], "source_name", sig)

\* Alert.filter(type="system", is_active=True,
\*              metadata__contains={"source_id": ...}).first() is not None
ExistingSystemAlert(tbl, sig) ==
    \E i \in 1..Len(tbl) :
        /\ tbl[i].type = "system"
        /\ tbl[i].is_active
        /\ MetadataContains(tbl[i], "source_id", sig)

----------------------------------------------------------------------------
(* Risk family *)

\* the query without its time filter
RiskQueryNoWindow(c, t) ==
    Take(Reverse(SelectSeq(Indices(risk_scores), LAMBDA i :
            risk_scores[i].city = c)),
         RISK_QUERY_LIMIT)

\* RiskScore.filter(city, calculated_at__gte=now-6h)
\*          .order_by("-calculated_at").limit(10), as row ids
RiskQuery(c, t) ==
    Take(Reverse(SelectSeq(Indices(risk_scores), LAMBDA i :
            /\ risk_scores[i].city = c
            /\ risk_scores[i].calculated_at >= t - Hours(RISK_WINDOW_HOURS))),
         RISK_QUERY_LIMIT)

\* every score from the medium threshold up gives a warning
RiskSeverityWarningOnly(score) ==
    IF score >= Hundredths(RISK_THRESHOLDS_medium)
    THEN [severity |-> "warning", audience |-> "internal"]
    ELSE NoAlert

RiskSeverity(score) ==
    IF score >= Hundredths(RISK_THRESHOLDS_high)
    THEN [severity |-> "critical", audience |-> "both"]
    ELSE IF score >= Hundredths(RISK_THRESHOLDS_medium)
    THEN [severity |-> "warning", audience |-> "internal"]
    ELSE NoAlert

----------------------------------------------------------------------------
(* Plain-anomaly family *)

\* Anomaly.filter(city, detected_at__gte=now-2h, resolved=False)
\*        .order_by("-detected_at"), as row ids
AnomalyQuery(c, t) ==
    Reverse(SelectSeq(Indices(anomalies), LAMBDA i :
        /\ anomalies[i].city = c
        /\ anomalies[i].detected_at >= t - Hours(ANOMALY_WINDOW_HOURS)
        /\ ~anomalies[i].resolved))

AnomalySeverity(severity) ==
    IF severity = "high"
    THEN [severity |-> "critical", audience |-> "both"]
    ELSE IF severity = "medium"
    THEN [severity |-> "warning", audience |-> "internal"]
    ELSE [severity |-> "info", audience |-> "internal"]

----------------------------------------------------------------------------
(* ML-anomaly family: app.modules.ml.core.detect_anomalies *)

Z_THRESHOLD_X2 == 5     \* z_threshold = 2.5, doubled
Z_HIGH == 3             \* severity 'high' above 3.0

CongestionMap(level) ==
    IF level = "low" THEN 30
    ELSE IF level = "medium" THEN 60
    ELSE IF level = "high" THEN 90
    ELSE 50

\* rows of the last `hours` hours, ordered by timestamp
Recent(rows, t) ==
    LET ids == SelectSeq(Indices(rows), LAMBDA i :
                   rows[i].timestamp >= t - Hours(ML_WINDOW_HOURS))
    IN  [k \in 1..Len(ids) |-> rows[SortBy(ids, [i \in 1..Len(rows) |->
                                        rows[i].timestamp])[k]]]

Sq(x) == x * x

\* n^2 times the population variance (np.std, ddof = 0) of the values
ScaledVar(values) ==
    Len(values) * SumSeq([i \in 1..Len(values) |-> Sq(values[i])])
        - Sq(SumSeq(values))

\* abs((x - mean) / std) > 2.5, 0 when std = 0; exact in integers:
\* z^2 = (n x - S)^2 / (n Q - S^2)
ZAbove(x, values, num, den) ==
    /\ ScaledVar(values) > 0
    /\ Sq(den) * Sq(Len(values) * x - SumSeq(values))
           > Sq(num) * ScaledVar(values)

\* np.percentile(a, q) with linear interpolation, times 4; q in {25, 75}
Percentile4(sorted, q) ==
    LET h4 == (Len(sorted) - 1) * (q \div 25)   \* 4 * position, 0-based
        lo == h4 \div 4
        r  == h4 % 4
    IN  IF r = 0 THEN 4 * sorted[lo + 1]
        ELSE (4 - r) * sorted[lo + 1] + r * sorted[lo + 2]

EnvAnomalies(env, temperatures, aqis) ==
    LET one(metric, x, values, ts) ==
            IF x # NULL /\ ZAbove(x, values, Z_THRESHOLD_X2, 2)
            THEN <<[timestamp |-> ts, metric |-> metric, value |-> x,
                    severity |-> IF ZAbove(x, values, Z_HIGH, 1)
                                 THEN "high" ELSE "medium"]>>
            ELSE <<>>
        F[k \in 0..Len(env)] ==
            IF k = 0 THEN <<>>
            ELSE F[k - 1]
                 \o one("temperature", env[k].temperature, temperatures,
                        env[k].timestamp)
                 \o one("aqi", env[k].aqi, aqis, env[k].timestamp)
    IN  F[Len(env)]

TrafficAnomalies(traffic) ==
    IF Len(traffic) < ML_MIN_POINTS THEN <<>>
    ELSE
    LET congestions == [k \in 1..Len(traffic) |->
                            CongestionMap(traffic[k].congestion_level)]
        sorted == LET ids == SortBy(Indices(congestions), congestions)
                  IN  [k \in 1..Len(ids) |-> congestions[ids[k]]]
        q1 == Percentile4(sorted, 25)
        q3 == Percentile4(sorted, 75)
        iqr == q3 - q1
        \* bounds times 8: 2*q -+ 3*iqr  (q -+ 1.5*iqr, q being times 4)
        lower8 == 2 * q1 - 3 * iqr
        upper8 == 2 * q3 + 3 * iqr
        F[k \in 0..Len(traffic)] ==
            IF k = 0 THEN <<>>
            ELSE F[k - 1] \o
                 (IF 8 * congestions[k] < lower8 \/ 8 * congestions[k] > upper8
                  THEN <<[timestamp |-> traffic[k].timestamp,
                          metric |-> "traffic_congestion",
                          value |-> congestions[k], severity |-> "medium"]>>
                  ELSE <<>>)
    IN  F[Len(traffic)]

\* detect_anomalies(city.name, hours=24)
detect_anomalies(c, t) ==
    LET env == Recent(env_data[c], t)
        traffic == Recent(traffic_data[c], t)
        temperatures == LET v == SelectSeq(env, LAMBDA d : d.temperature # NULL)
                        IN  [k \in 1..Len(v) |-> v[k].temperature]
        aqis == LET v == SelectSeq(env, LAMBDA d : d.aqi # NULL)
                IN  [k \in 1..Len(v) |-> v[k].aqi]
        empty == [anomalies |-> <<>>, confidence_score |-> 0]
    IN  IF Len(env) < ML_MIN_POINTS THEN empty
        ELSE IF Len(temperatures) < ML_MIN_POINTS \/ Len(aqis) < ML_MIN_POINTS
        THEN empty
        ELSE [anomalies |-> EnvAnomalies(env, temperatures, aqis)
                                \o TrafficAnomalies(traffic),
              confidence_score |-> Min(95, 50 + Len(env))]

\* the anomalies generate_ml_anomaly_alerts loops over
MLQuery(c, t) ==
    LET result == detect_anomalies(c, t)
    IN  IF result.confidence_score < ML_ANOMALY_CONFIDENCE_MIN THEN <<>>
        ELSE [k \in 1..Len(result.anomalies) |->
                [anomaly |-> result.anomalies[k],
                 confidence |-> result.confidence_score]]

\* the downgrade bound compared the wrong way round
MLSeverityUpgrade(severity, confidence) ==
    LET sa == AnomalySeverity(severity)
    IN  IF confidence >= ML_ANOMALY_CONFIDENCE_DOWNGRADE
           /\ sa.severity = "critical"
        THEN [severity |-> "warning", audience |-> "internal"]
        ELSE sa

MLSeverity(severity, confidence) ==
    LET sa == AnomalySeverity(severity)
    IN  IF confidence < ML_ANOMALY_CONFIDENCE_DOWNGRADE
           /\ sa.severity = "critical"
        THEN [severity |-> "warning", audience |-> "internal"]
        ELSE sa

----------------------------------------------------------------------------
(* Forecast family *)

NoThresholds == [warning |-> NULL, critical |-> NULL]

FORECAST_THRESHOLDS(metric) ==
    IF metric = "aqi" THEN [warning |-> 10000, critical |-> 20000]
    ELSE IF metric = "pm25" THEN [warning |-> 3500, critical |-> 7500]
    ELSE IF metric = "waterStress" THEN [warning |-> 70, critical |-> 90]
    ELSE NoThresholds

\* Forecast.filter(city, target_date__gte=now, target_date__lte=now+24h)
\*         .order_by("target_date"), as row ids
ForecastQuery(c, t) ==
    SortBy(SelectSeq(Indices(forecasts), LAMBDA i :
               /\ forecasts[i].city = c
               /\ forecasts[i].target_date >= t
               /\ forecasts[i].target_date <= t + Hours(FORECAST_WINDOW_HOURS)),
           [i \in 1..Len(forecasts) |-> forecasts[i].target_date])

ForecastSeverity(metric, value) ==
    LET thresholds == FORECAST_THRESHOLDS(metric)
    IN  IF thresholds = NoThresholds THEN NoAlert
        ELSE IF value >= thresholds.critical
        THEN [severity |-> "critical", audience |-> "both"]
        ELSE IF value >= thresholds.warning
        THEN [severity |-> "warning", audience |-> "both"]
        ELSE NoAlert

----------------------------------------------------------------------------
(* System-health family *)

\* DataSource.filter(is_online=False).all(), as source names
SystemQuery ==
    SelectSeq(SourceNames, LAMBDA n : sources[n].exists /\ ~sources[n].is_online)

SystemSeverity == [severity |-> "warning", audience |-> "internal"]

----------------------------------------------------------------------------
(* generate_all_alerts: one coroutine per request slot.                    *)
(* pc: idle -> query -> (check -> create)* -> query ... -> done -> idle    *)

Procs == {1, 2}

IdleCall ==
    [pc |-> "idle", city |-> "", fam |-> 0, items |-> <<>>, cand |-> NoAlert,
     created |-> <<0, 0, 0, 0, 0>>,
     failed |-> <<FALSE, FALSE, FALSE, FALSE, FALSE>>,
     ids |-> {}, second |-> FALSE, error |-> FALSE,
     base |-> <<>>, t0 |-> 0, overlap |-> FALSE]

NoLast == [city |-> "", clean |-> FALSE, fresh |-> FALSE, created |-> 0]

Family(p) == FamilyOrder[call[p].fam]

\* the rows a family loops over, read by its first storage query
Query(f, c, t) ==
    CASE f = "risk"       -> RiskQuery(c, t)
      [] f = "anomaly"    -> AnomalyQuery(c, t)
      [] f = "ml_anomaly" -> MLQuery(c, t)
      [] f = "forecast"   -> ForecastQuery(c, t)
      [] f = "system"     -> SystemQuery

\* Alert.type of the family's alerts
AlertType(f) ==
    CASE f = "risk"       -> "risk"
      [] f = "anomaly"    -> "anomaly"
      [] f = "ml_anomaly" -> "anomaly"
      [] f = "forecast"   -> "forecast"
      [] f = "system"     -> "system"

\* the metadata key that holds the family's dedup signature
SigKey(f) ==
    CASE f = "risk"       -> "category"
      [] f = "anomaly"    -> "anomaly_id"
      [] f = "ml_anomaly" -> "signature"
      [] f = "forecast"   -> "forecast_id"
      [] f = "system"     -> "source_id"

\* the signature of one looped-over row
Sig(f, item) ==
    CASE f = "risk"       -> <<risk_scores[item].category>>
      [] f = "anomaly"    -> <<item>>
      [] f = "ml_anomaly" -> <<"ml", item.anomaly.metric, item.anomaly.timestamp>>
      [] f = "forecast"   -> <<item>>
      [] f = "system"     -> <<item>>

\* severity and audience of the alert for one row, NoAlert to skip the row
Severity(f, item) ==
    CASE f = "risk"       -> RiskSeverity(risk_scores[item].score)
      [] f = "anomaly"    -> AnomalySeverity(anomalies[item].severity)
      [] f = "ml_anomaly" -> MLSeverity(item.anomaly.severity, item.confidence)
      [] f = "forecast"   -> ForecastSeverity(forecasts[item].metric_type,
                                              forecasts[item].predicted_value)
      [] f = "system"     -> SystemSeverity

\* what the alert's metadata records about its origin
Info(f, item) ==
    CASE f = "risk"       -> [score |-> risk_scores[item].score]
      [] f = "anomaly"    -> [severity |-> anomalies[item].severity]
      [] f = "ml_anomaly" -> [severity |-> item.anomaly.severity,
                              confidence_score |-> item.confidence]
      [] f = "forecast"   -> [metric_type |-> forecasts[item].metric_type,
                              predicted_value |-> forecasts[item].predicted_value]
      [] f = "system"     -> [failure_count |-> sources[item].failure_count]

\* the dedup lookup of a family on table tbl
Existing(tbl, f, c, item) ==
    IF f = "system" THEN ExistingSystemAlert(tbl, Sig(f, item))
    ELSE ExistingAlert(tbl, c, AlertType(f), SigKey(f), Sig(f, item))

\* the forecast family tests the thresholds before the lookup, the others
\* look up first
SkipsBeforeLookup(f, item) == f = "forecast" /\ Severity(f, item) = NoAlert

\* the family is over: the next family starts, or the result is built
NextFamily(c) ==
    IF c.fam < Len(FamilyOrder)
    THEN [c EXCEPT !.pc = "query", !.fam = c.fam + 1, !.items = <<>>,
                   !.cand = NoAlert]
    ELSE [c EXCEPT !.pc = "done", !.items = <<>>, !.cand = NoAlert]

\* the loop ends after its first row
NextItemNone(c) == NextFamily(c)

\* the loop moves to the next row
NextItem(c) ==
    IF Len(c.items) > 1
    THEN [c EXCEPT !.pc = "check", !.items = Tail(c.items), !.cand = NoAlert]
    ELSE NextFamily(c)

\* the dict generate_all_alerts returns
Result(c) ==
    IF c.error THEN [error |-> TRUE, alerts_created |-> 0,
                     breakdown |-> <<0, 0, 0, 0, 0>>]
    ELSE [error |-> FALSE, alerts_created |-> SumSeq(c.created),
          breakdown |-> c.created]

\* generate_all_alerts up to the first family; ok = FALSE: the city lookup
\* raises
StartGen(p, name, ok) ==
    /\ call[p].pc = "idle"
    /\ call' = [call EXCEPT ![p] =
          IF ok /\ name \in Cities
          THEN [IdleCall EXCEPT !.pc = "query", !.city = name, !.fam = 1,
                    !.second = (last.fresh /\ last.clean /\ last.city = name),
                    !.base = alerts, !.t0 = now,
                    !.overlap = \E q \in Procs \ {p} :
                                    call[q].pc \notin {"idle", "done"}]
          ELSE [IdleCall EXCEPT !.pc = "done", !.city = name, !.error = TRUE]]
    /\ UNCHANGED <<now, alerts, facts, res, last, replies>>

\* the family's first query
FamilyQuery(p) ==
    /\ call[p].pc = "query"
    /\ LET items == Query(Family(p), call[p].city, now)
       IN  call' = [call EXCEPT ![p] =
              IF items = <<>> THEN NextFamily(call[p])
              ELSE [call[p] EXCEPT !.pc = "check", !.items = items]]
    /\ UNCHANGED <<now, alerts, facts, res, last, replies>>

\* one row: the lookup of an existing active alert and the severity rules
ItemCheck(p) ==
    /\ call[p].pc = "check"
    /\ LET f == Family(p)
           item == Head(call[p].items)
       IN  call' = [call EXCEPT ![p] =
              IF \/ SkipsBeforeLookup(f, item)
                 \/ Existing(alerts, f, call[p].city, item)
                 \/ Severity(f, item) = NoAlert
              THEN NextItem(call[p])
              ELSE [call[p] EXCEPT !.pc = "create",
                                   !.cand = Severity(f, item)]]
    /\ UNCHANGED <<now, alerts, facts, res, last, replies>>

\* one row: Alert.create and alerts_created.append
ItemCreate(p) ==
    /\ call[p].pc = "create"
    /\ LET f == Family(p)
           item == Head(call[p].items)
       IN  /\ alerts' = Append(alerts,
                  NewAlert(call[p].city, AlertType(f), SigKey(f), Sig(f, item),
                           call[p].cand, item, Info(f, item), p))
           /\ call' = [call EXCEPT ![p] =
                  NextItem([call[p] EXCEPT
                      !.created[call[p].fam] = @ + 1,
                      !.ids = @ \cup {Len(alerts) + 1}])]
    /\ UNCHANGED <<now, facts, res, last, replies>>

\* the failure escapes the family: the outer handler answers with the error
GenFaultPropagates(p) ==
    /\ call[p].pc \in {"query", "check", "create"}
    /\ call' = [call EXCEPT ![p] =
           [call[p] EXCEPT !.pc = "done", !.error = TRUE,
                           !.failed[call[p].fam] = TRUE]]
    /\ UNCHANGED <<now, alerts, facts, res, last, replies>>

\* the storage operation the family is about to run raises: the family's
\* except clause logs and returns what it created so far
GenFault(p) ==
    /\ call[p].pc \in {"query", "check", "create"}
    /\ call[p].pc = "check" =>
           ~SkipsBeforeLookup(Family(p), Head(call[p].items))
    /\ call' = [call EXCEPT ![p] =
           NextFamily([call[p] EXCEPT !.failed[call[p].fam] = TRUE])]
    /\ UNCHANGED <<now, alerts, facts, res, last, replies>>

\* the result is returned to the caller
ReturnGen(p) ==
    /\ call[p].pc = "done"
    /\ last' = [city |-> call[p].city,
                clean |-> ~call[p].error /\ \A k \in 1..5 : ~call[p].failed[k],
                fresh |-> TRUE, created |-> Result(call[p]).alerts_created]
    /\ call' = [call EXCEPT ![p] = IdleCall]
    /\ UNCHANGED <<now, alerts, facts, res, replies>>

----------------------------------------------------------------------------
(* resolve_alert: one coroutine per request slot.  pc: idle -> save -> idle *)

Resolvers == {1, 2}

IdleRes == [pc |-> "idle", id |-> 0, row |-> NoAlert]

Stale == [last EXCEPT !.fresh = FALSE]

\* Alert.filter(id=alert_id).first() and the code up to alert.save():
\* an unknown id is a 404 and an inactive alert returns "already resolved",
\* both without a write; otherwise the fetched row is edited in memory
ResolveFetch(r, id, ack) ==
    /\ res[r].pc = "idle"
    /\ id \in 1..Len(alerts)
    /\ res' = [res EXCEPT ![r] =
          IF ~alerts[id].is_active THEN IdleRes
          ELSE [pc |-> "save", id |-> id,
                row |-> [alerts[id] EXCEPT
                            !.is_active = FALSE,
                            !.resolved_at = now,
                            !.acked = (@ \/ ack)]]]
    /\ UNCHANGED <<now, alerts, facts, call, last, replies>>

\* alert.save(): UPDATE of every column from the in-memory row
ResolveSave(r) ==
    /\ res[r].pc = "save"
    /\ alerts' = [alerts EXCEPT ![res[r].id] = res[r].row]
    /\ res' = [res EXCEPT ![r] = IdleRes]
    /\ last' = Stale
    /\ UNCHANGED <<now, facts, call, replies>>

----------------------------------------------------------------------------
(* RiskScorer: the composite risk score of a city.  Component scores are   *)
(* in thousandths (round(x, 3)), weights in hundredths, so the weighted    *)
(* sum is exact in hundred-thousandths.  Readings are whole numbers (water *)
(* stress in hundredths), which makes every normalised metric a whole      *)
(* number of thousandths.                                                  *)

WEIGHTS ==
    [environment |-> 35, traffic |-> 25, services |-> 25, anomalies |-> 15]

HIGH_RISK_THRESHOLD == 70
MEDIUM_RISK_THRESHOLD == 40
NEUTRAL_SCORE == 500
ANOMALY_LOOKBACK_DAYS == 7
TRAFFIC_QUERY_LIMIT == 10
TRAFFIC_ZONES_USED == 3

Max(a, b) == IF a >= b THEN a ELSE b

\* round(num / den) for num >= 0, den > 0, a tie going to the even neighbour
Round(num, den) ==
    LET q == num \div den
        r == num % den
    IN  IF 2 * r < den THEN q
        ELSE IF 2 * r > den THEN q + 1
        ELSE IF q % 2 = 0 THEN q ELSE q + 1

\* min and max of the range a metric is normalised over, in the unit of the
\* stored reading (water stress: hundredths)
METRIC_RANGES(metric_name) ==
    CASE metric_name = "aqi"             -> [min |-> 0, max |-> 500]
      [] metric_name = "pm25"            -> [min |-> 0, max |-> 500]
      [] metric_name = "water_stress"    -> [min |-> 0, max |-> 100]
      [] metric_name = "power_load"      -> [min |-> 0, max |-> 100]
      [] metric_name = "traffic_density" -> [min |-> 0, max |-> 100]

\* a reading as a risk in thousandths, clamped to [0, 1]; every metric the
\* scorer passes is "higher_worse"
normalize_metric(metric_name, value) ==
    LET config == METRIC_RANGES(metric_name)
    IN  Max(0, Min(1000,
            ((value - config.min) * 1000) \div (config.max - config.min)))

\* the rows of a table ordered by -timestamp (of two rows with one timestamp
\* the later insert first)
Newest(rows) ==
    LET ids == SortBy(Indices(rows), [i \in 1..Len(rows) |-> rows[i].timestamp])
    IN  Reverse([k \in 1..Len(rows) |-> rows[ids[k]]])

\* sum(scores) / len(scores) if scores else 0.5, rounded to three decimals
AvgScore(scores) ==
    IF scores = <<>> THEN NEUTRAL_SCORE
    ELSE Round(SumSeq(scores), Len(scores))

calculate_environment_risk(c) ==
    IF env_data[c] = <<>> THEN [score |-> NEUTRAL_SCORE, factors |-> 0]
    ELSE LET latest == Newest(env_data[c])[1]
             scores ==
                 (IF latest.aqi # None
                  THEN <<normalize_metric("aqi", latest.aqi)>> ELSE <<>>)
                 \o (IF latest.pm25 # None
                     THEN <<normalize_metric("pm25", latest.pm25)>>
                     ELSE <<>>)
         IN  [score |-> AvgScore(scores), factors |-> Len(scores)]

calculate_traffic_risk(c) ==
    IF traffic_data[c] = <<>> THEN [score |-> NEUTRAL_SCORE, factors |-> 0]
    ELSE LET latest_traffic ==
                 Take(Newest(traffic_data[c]), TRAFFIC_QUERY_LIMIT)
             top == Take(latest_traffic, TRAFFIC_ZONES_USED)
             scores == [i \in 1..Len(top) |->
                 normalize_metric("traffic_density", top[i].density_percent)]
         IN  [score |-> AvgScore(scores), factors |-> Len(scores)]

calculate_services_risk(c) ==
    IF service_data[c] = <<>> THEN [score |-> NEUTRAL_SCORE, factors |-> 0]
    ELSE LET latest == Newest(service_data[c])[1]
             scores ==
                 (IF latest.water_supply_stress # None
                  THEN <<normalize_metric("water_stress",
                                          latest.water_supply_stress)>>
                  ELSE <<>>)
                 \o (IF latest.power_outage_count # None
                     THEN <<normalize_metric("power_load",
                                             latest.power_outage_count)>>
                     ELSE <<>>)
         IN  [score |-> AvgScore(scores), factors |-> Len(scores)]

\* without a recent anomaly the component is the neutral score of the other
\* three
AnomalyRiskNeutral(c, t) ==
    LET recent_anomalies == SelectSeq(anomalies, LAMBDA a :
            /\ a.city = c
            /\ a.detected_at >= t - Days(ANOMALY_LOOKBACK_DAYS)
            /\ ~a.resolved)
        count(sev) == Len(SelectSeq(recent_anomalies,
                                    LAMBDA a : a.severity = sev))
    IN  IF recent_anomalies = <<>>
        THEN [score |-> NEUTRAL_SCORE, count |-> 0]
        ELSE [score |-> Min(1000, 300 * count("high") + 150 * count("medium")
                                  + 50 * count("low")),
              count |-> Len(recent_anomalies)]

\* unresolved anomalies of the last seven days, weighted by severity:
\* min(1.0, 0.3 * high + 0.15 * medium + 0.05 * low)
calculate_anomaly_risk(c, t) ==
    LET recent_anomalies == SelectSeq(anomalies, LAMBDA a :
            /\ a.city = c
            /\ a.detected_at >= t - Days(ANOMALY_LOOKBACK_DAYS)
            /\ ~a.resolved)
        count(sev) == Len(SelectSeq(recent_anomalies,
                                    LAMBDA a : a.severity = sev))
    IN  IF recent_anomalies = <<>> THEN [score |-> 0, count |-> 0]
        ELSE [score |-> Min(1000, 300 * count("high") + 150 * count("medium")
                                  + 50 * count("low")),
              count |-> Len(recent_anomalies)]

\* the weighted overall score, in hundred-thousandths
\* the plain average of the four components
UnweightedScore(env_risk, traffic_risk, services_risk, anomaly_risk) ==
    25 * (env_risk + traffic_risk + services_risk + anomaly_risk)

overall_score(env_risk, traffic_risk, services_risk, anomaly_risk) ==
    env_risk * WEIGHTS.environment + traffic_risk * WEIGHTS.traffic
    + services_risk * WEIGHTS.services + anomaly_risk * WEIGHTS.anomalies

\* a score that equals a threshold stays in the level below it
DetermineLevelStrict(score) ==
    IF score > Hundredths(HIGH_RISK_THRESHOLD) THEN "high"
    ELSE IF score > Hundredths(MEDIUM_RISK_THRESHOLD) THEN "medium"
    ELSE "low"

\* the level of a composite score (in hundred-thousandths)
determine_level(score) ==
    IF score >= Hundredths(HIGH_RISK_THRESHOLD) THEN "high"
    ELSE IF score >= Hundredths(MEDIUM_RISK_THRESHOLD) THEN "medium"
    ELSE "low"

\* the weighted score of four component scores and its level
Scored(components) ==
    LET score == overall_score(components.environment, components.traffic,
                               components.services, components.anomalies)
    IN  [components |-> components, score |-> score,
         level |-> determine_level(score)]

\* what calculate_city_risk computes for an existing city at time t
CityRisk(c, t) ==
    Scored([environment |-> calculate_environment_risk(c).score,
            traffic     |-> calculate_traffic_risk(c).score,
            services    |-> calculate_services_risk(c).score,
            anomalies   |-> calculate_anomaly_risk(c, t).score])

----------------------------------------------------------------------------
(* AnomalyDetector: z-score checks of the latest reading of every metric.  *)
(* A z-score is kept exact as the sign of (x - mean) and the fraction      *)
(* z^2 = num / den, with n = len(values), S = sum, Q = sum of squares:     *)
(*   mean = S / n,  stdev^2 = (n*Q - S^2) / (n*(n-1))   (statistics.stdev) *)
(*   z^2  = (n*x - S)^2 * (n-1) / (n * (n*Q - S^2))                        *)
(* Thresholds are in halves (1.5 = 3).                                     *)

HIGH_SEVERITY_THRESHOLD_X2 == 6
MEDIUM_SEVERITY_THRESHOLD_X2 == 4
LOW_SEVERITY_THRESHOLD_X2 == 3
MIN_DATA_POINTS == 10
DETECT_LOOKBACK_DAYS == 30
DETECT_QUERY_LIMIT == 1000

SumSq(values) == SumSeq([i \in 1..Len(values) |-> Sq(values[i])])

\* n^2 * (n-1) * stdev^2 of the values: zero iff statistics.stdev is zero
SpreadOf(values) == Len(values) * SumSq(values) - Sq(SumSeq(values))

\* z_score = (current_value - mean) / stdev, for a stdev above zero
ZScore(current_value, values) ==
    LET n == Len(values)
        d == n * current_value - SumSeq(values)
    IN  [positive |-> d > 0,
         num |-> Sq(d) * (n - 1),
         den |-> n * SpreadOf(values)]

\* abs(z) >= threshold, the threshold in halves
AbsAtLeast(z, threshold_x2) == 4 * z.num >= Sq(threshold_x2) * z.den

calculate_severity(z_score) ==
    IF AbsAtLeast(z_score, HIGH_SEVERITY_THRESHOLD_X2) THEN "high"
    ELSE IF AbsAtLeast(z_score, MEDIUM_SEVERITY_THRESHOLD_X2) THEN "medium"
    ELSE "low"

NoAnomaly == [kind |-> "none"]         \* return None
Raises == [kind |-> "raise"]           \* an exception leaves the function
Found(list) == [kind |-> "list", found |-> list]   \* a list is returned

\* _check_metric_anomaly: None, the anomaly dict, or ZeroDivisionError when
\* the mean of the values is zero (deviation_percent divides by it).
\* expected_value is in hundredths, deviation_percent in tenths of a percent.
check_metric_anomaly(metric_name, current_value, historical_values, data_type) ==
    LET n == Len(historical_values)
        S == SumSeq(historical_values)
        z_score == ZScore(current_value, historical_values)
    IN  IF n < MIN_DATA_POINTS THEN NoAnomaly
        ELSE IF SpreadOf(historical_values) = 0 THEN NoAnomaly
        ELSE IF ~AbsAtLeast(z_score, LOW_SEVERITY_THRESHOLD_X2) THEN NoAnomaly
        ELSE IF S = 0 THEN Raises
        ELSE [kind |-> "anomaly", metric |-> metric_name, type |-> data_type,
              severity |-> calculate_severity(z_score),
              current_value |-> current_value,
              expected_value |->
                  (IF S >= 0 THEN 1 ELSE 0 - 1) * Round(100 * Abs(S), n),
              deviation |-> z_score,
              deviation_percent |->
                  Round(1000 * Abs(n * current_value - S), Abs(S)),
              direction |-> IF z_score.positive THEN "higher" ELSE "lower"]

\* [d.<field> for d in historical_data if d.<field> is not None]; reading a
\* column the row class does not have raises AttributeError
HasColumn(rows, field) == \A i \in 1..Len(rows) : field \in DOMAIN rows[i]

ColumnValues(rows, field) ==
    LET kept == SelectSeq(rows, LAMBDA d : d[field] # None)
    IN  [i \in 1..Len(kept) |-> kept[i][field]]

\* the rows of the last 30 days, newest first
HistoricalData(rows, t) ==
    Take(Newest(Since(rows, t - Days(DETECT_LOOKBACK_DAYS))),
         DETECT_QUERY_LIMIT)

\* one "Check <metric>" block of a detect_* function: what it appends to
\* the list of anomalies, or Raises
MetricCheck(historical_data, field, metric_name, data_type) ==
    IF ~HasColumn(historical_data, field) THEN Raises
    ELSE LET values == ColumnValues(historical_data, field)
             latest == historical_data[1]
         IN  IF Len(values) >= MIN_DATA_POINTS /\ latest[field] # None
             THEN LET anomaly == check_metric_anomaly(metric_name,
                                     latest[field], values, data_type)
                  IN  IF anomaly = Raises THEN Raises
                      ELSE IF anomaly = NoAnomaly THEN Found(<<>>)
                      ELSE Found(<<anomaly>>)
             ELSE Found(<<>>)

RECURSIVE MetricChecks(_, _, _)
\* the blocks of one detect_* function in order; the first that raises ends
\* the function
MetricChecks(historical_data, checks, data_type) ==
    IF checks = <<>> THEN Found(<<>>)
    ELSE LET first == MetricCheck(historical_data, Head(checks).field,
                                  Head(checks).metric, data_type)
             rest == MetricChecks(historical_data, Tail(checks), data_type)
         IN  IF first = Raises \/ rest = Raises THEN Raises
             ELSE Found(first.found \o rest.found)

DetectIn(rows, t, checks, data_type) ==
    LET historical_data == HistoricalData(rows, t)
    IN  IF Len(historical_data) < MIN_DATA_POINTS THEN Found(<<>>)
        ELSE MetricChecks(historical_data, checks, data_type)

detect_environment_anomalies(c, t) ==
    DetectIn(env_data[c], t,
             <<[metric |-> "AQI", field |-> "aqi"],
               [metric |-> "PM2.5", field |-> "pm25"],
               [metric |-> "Temperature", field |-> "temperature"]>>,
             "environment")

detect_traffic_anomalies(c, t) ==
    DetectIn(traffic_data[c], t,
             <<[metric |-> "Traffic Density", field |-> "density_percent"],
               [metric |-> "Average Speed", field |-> "avg_speed"]>>,
             "traffic")

detect_service_anomalies(c, t) ==
    DetectIn(service_data[c], t,
             <<[metric |-> "Water Stress", field |-> "water_stress"],
               [metric |-> "Power Load", field |-> "power_load_percent"]>>,
             "service")

\* detect_all_anomalies for an existing city: the dict it returns, or Raises
detect_all_anomalies(c, t) ==
    LET env_anomalies == detect_environment_anomalies(c, t)
        traffic_anomalies == detect_traffic_anomalies(c, t)
        service_anomalies == detect_service_anomalies(c, t)
    IN  IF \/ env_anomalies = Raises
           \/ traffic_anomalies = Raises
           \/ service_anomalies = Raises
        THEN Raises
        ELSE [kind |-> "result",
              environment_anomalies |-> env_anomalies.found,
              traffic_anomalies |-> traffic_anomalies.found,
              service_anomalies |-> service_anomalies.found,
              total_count |-> Len(env_anomalies.found)
                              + Len(traffic_anomalies.found)
                              + Len(service_anomalies.found)]

----------------------------------------------------------------------------
(* ScenarioEngine: what-if simulation.  Percent changes and AQI values of  *)
(* an impact are in tenths (round(x, 1)), confidences in hundredths,       *)
(* multipliers in tenths, zone factors in hundredths.  A time window is    *)
(* the list of its parts between "-" signs; of a part only its text before *)
(* the first ":" matters: whether int() accepts it, and the hour it gives. *)

TRAFFIC_AQI_COEFFICIENT == 65
HEAVY_VEHICLE_PM25_IMPACT == 14
DEFAULT_BASELINE_AQI == 100
SPILLOVER_MIN_CHANGE == 20
LOW_CONFIDENCE == 60

Sign(x) == IF x >= 0 THEN 1 ELSE 0 - 1

\* round(num / den) for den > 0 and any num
RoundSigned(num, den) == Sign(num) * Round(Abs(num), den)

Hour(h) == [digits |-> TRUE, hour |-> h]
NotAnHour == [digits |-> FALSE, hour |-> 0]
Window(start_hour, end_hour) == <<Hour(start_hour), Hour(end_hour)>>

\* _analyze_time_window: the bare except answers every parsing failure
\* (not two parts, or a part int() rejects) with the standard period
analyze_time_window(time_window) ==
    IF Len(time_window) # 2 \/ \E i \in 1..2 : ~time_window[i].digits
    THEN [multiplier |-> 10, period_type |-> "standard",
          baseline_traffic |-> 60]
    ELSE LET start_hour == time_window[1].hour
             end_hour == time_window[2].hour
             is_morning_peak == start_hour <= 10 /\ end_hour >= 8
             is_evening_peak == start_hour <= 20 /\ end_hour >= 17
             is_night == start_hour >= 22 \/ end_hour <= 6
         IN  IF is_morning_peak \/ is_evening_peak
             THEN [multiplier |-> 14, period_type |-> "peak",
                   baseline_traffic |-> 85]
             ELSE IF is_night
             THEN [multiplier |-> 6, period_type |-> "off-peak (night)",
                   baseline_traffic |-> 30]
             ELSE [multiplier |-> 10, period_type |-> "off-peak",
                   baseline_traffic |-> 55]

\* zone_characteristics.get(zone, zone_characteristics["B"])
zone_characteristics(zone) ==
    CASE zone = "A" -> [congestion_level |-> "High",
                        baseline_aqi_factor |-> 115, traffic_density |-> 85]
      [] zone = "C" -> [congestion_level |-> "Low",
                        baseline_aqi_factor |-> 85, traffic_density |-> 45]
      [] OTHER      -> [congestion_level |-> "Medium",
                        baseline_aqi_factor |-> 100, traffic_density |-> 65]

\* <value> or <default>: None and zero both give the default
OrDefault(value, default) ==
    IF value = None \/ value = 0 THEN default ELSE value

\* City.filter(name__iexact=name).first(): the city or None
Lower(name) == IF name = "C1" THEN "c1" ELSE name
CityLookup(name) ==
    IF Lower(name) \in Cities THEN Lower(name) ELSE "None"

\* the baseline is taken from the scenario stored last for the city, when
\* there is one
BaselineFromScenarios(scenario_input) ==
    LET city == CityLookup(Lower(scenario_input.city))
        mine == {i \in 1..Len(scenarios) : scenarios[i].city = city}
    IN  IF mine = {}
        THEN OrDefault(scenario_input.baselineAQI, DEFAULT_BASELINE_AQI)
        ELSE Round(scenarios[CHOOSE i \in mine : \A j \in mine : j <= i]
                       .inputs.baselineAQI, 100)

\* the AQI baseline before the zone factor: the supplied one, replaced by
\* the latest stored reading of the city whenever either baseline is missing
BaselineAQI(scenario_input) ==
    LET supplied == scenario_input.baselineAQI
        city == CityLookup(Lower(scenario_input.city))
        fetched ==
            IF supplied = None \/ scenario_input.baselineTrafficDensity = None
            THEN IF city # "None" /\ env_data[city] # <<>>
                 THEN OrDefault(Newest(env_data[city])[1].aqi,
                                DEFAULT_BASELINE_AQI)
                 ELSE supplied
            ELSE supplied
    IN  OrDefault(fetched, DEFAULT_BASELINE_AQI)

\* the impacts of a simulation, in the order the code appends them
Impacts(scenario_input) ==
    LET zone == scenario_input.zone
        traffic_change == scenario_input.trafficDensityChange
        heavy_restriction == scenario_input.heavyVehicleRestriction
        time_analysis == analyze_time_window(scenario_input.timeWindow)
        peak_multiplier == time_analysis.multiplier
        baseline_density == time_analysis.baseline_traffic
        zone_info == zone_characteristics(zone)
        \* baseline_aqi * factor = aqi_x20 / 20
        aqi_x20 == BaselineAQI(scenario_input)
                   * (zone_info.baseline_aqi_factor \div 5)
        \* aqi_change in ten-thousandths of a percent, a multiple of 20
        aqi_change == traffic_change * TRAFFIC_AQI_COEFFICIENT
                      * peak_multiplier
                      * (IF heavy_restriction THEN HEAVY_VEHICLE_PM25_IMPACT
                         ELSE 10)
        air ==
            IF traffic_change # 0
            THEN <<[metric |-> "Air Quality Index (AQI)",
                    baseline |-> Round(aqi_x20, 2),
                    predicted |-> RoundSigned(
                        aqi_x20 * ((1000000 + aqi_change) \div 20), 100000),
                    change_percent |-> RoundSigned(aqi_change, 1000),
                    direction |-> IF aqi_change < 0 THEN "decrease"
                                  ELSE "increase",
                    confidence |-> 78]>>
            ELSE <<>>
        \* -15.0 * multiplier, in hundredths of a percent
        pm25_reduction == 0 - 150 * peak_multiplier
        heavy ==
            IF heavy_restriction
            THEN <<[metric |-> "PM2.5 Concentration",
                    baseline |-> Round(aqi_x20 * 6, 20),
                    predicted |-> RoundSigned(
                        aqi_x20 * 6 * ((10000 + pm25_reduction) \div 100),
                        2000),
                    change_percent |-> RoundSigned(pm25_reduction, 10),
                    direction |-> "decrease", confidence |-> 72],
                  [metric |-> "Noise Pollution", baseline |-> None,
                   predicted |-> 8 * peak_multiplier,
                   change_percent |-> 0 - 8 * peak_multiplier,
                   direction |-> "decrease", confidence |-> 68],
                  [metric |-> "Road Infrastructure Stress",
                   baseline |-> None, predicted |-> 200,
                   change_percent |-> 0 - 200,
                   direction |-> "decrease", confidence |-> 75]>>
            ELSE <<>>
        \* abs(traffic_change) * 0.8 * multiplier * 1.2, in thousandths
        time_saved == Abs(traffic_change) * 8 * peak_multiplier * 12
        travel ==
            IF traffic_change < 0
            THEN <<[metric |-> "Travel Time", baseline |-> None,
                    predicted |-> Round(time_saved, 100),
                    change_percent |-> 0 - Round(time_saved, 100),
                    direction |-> "decrease", confidence |-> 82]>>
            ELSE <<>>
        \* traffic_change * 0.15 * (1 + (multiplier - 1) * 0.5), in
        \* ten-thousandths
        spillover_traffic ==
            traffic_change * 15 * (100 + (peak_multiplier - 10) * 5)
        spillover ==
            IF Abs(traffic_change) > SPILLOVER_MIN_CHANGE
            THEN <<[metric |-> "Traffic in Adjacent Zones",
                    baseline |-> None,
                    predicted |-> Round(Abs(spillover_traffic), 1000),
                    change_percent |-> RoundSigned(spillover_traffic, 1000),
                    direction |-> IF spillover_traffic > 0 THEN "increase"
                                  ELSE "decrease",
                    confidence |-> 65]>>
            ELSE <<>>
        assessment ==
            <<[metric |-> "Zone Baseline Assessment", baseline |-> None,
               predicted |-> Round(zone_info.traffic_density
                                   * baseline_density * 10, 60),
               change_percent |-> 0, direction |-> "baseline",
               confidence |-> 85,
               \* what the explanation text tells of the time window
               explanation |-> [period_type |-> time_analysis.period_type,
                                multiplier |-> peak_multiplier]]>>
        \* abs(traffic_change) * 0.4 * multiplier, in hundredths
        fuel_percent == Abs(traffic_change) * 4 * peak_multiplier
        fuel ==
            IF traffic_change < 0
            THEN <<[metric |-> "Commuter Fuel Cost", baseline |-> None,
                    predicted |-> Round(fuel_percent, 10),
                    change_percent |-> 0 - Round(fuel_percent, 10),
                    direction |-> "decrease", confidence |-> 70]>>
            ELSE IF traffic_change > 0
            THEN <<[metric |-> "Commuter Fuel Cost", baseline |-> None,
                    predicted |-> Round(fuel_percent, 10),
                    change_percent |-> Round(fuel_percent, 10),
                    direction |-> "increase", confidence |-> 70]>>
            ELSE <<>>
    IN  air \o heavy \o travel \o spillover \o assessment \o fuel

\* sum and count of the impacts' confidences: their mean, unrounded
ConfidenceOf(impacts) ==
    [sum |-> SumSeq([i \in 1..Len(impacts) |-> impacts[i].confidence]),
     count |-> Len(impacts)]

\* the confidence of a simulation without impacts, whatever was emitted
FallbackConfidence(impacts) == 500

\* round(overall_confidence, 3), in thousandths; 0.5 without impacts
overall_confidence(impacts) ==
    IF impacts = <<>> THEN 500
    ELSE Round(10 * ConfidenceOf(impacts).sum, Len(impacts))

generate_recommendation(traffic_change, heavy_restriction, impacts) ==
    LET confidence == ConfidenceOf(impacts)
        aqi_impact == SelectSeq(impacts, LAMBDA i :
                          i.metric = "Air Quality Index (AQI)")
    IN  IF \/ impacts = <<>>
           \/ confidence.sum < LOW_CONFIDENCE * confidence.count
        THEN "low confidence"
        ELSE IF /\ traffic_change < 0 - 15
                /\ heavy_restriction
                /\ aqi_impact # <<>>
                /\ aqi_impact[1].change_percent < 0 - 200
        THEN "strongly recommended"
        ELSE IF traffic_change < 0 THEN "recommended"
        ELSE IF traffic_change > 15 THEN "not recommended"
        ELSE "neutral"

\* the informational entries are left out of the impacts
SimulateInformative(scenario_input) ==
    LET impacts == SelectSeq(Impacts(scenario_input),
                             LAMBDA i : i.direction # "baseline")
    IN  [city |-> Lower(scenario_input.city),
         zone |-> scenario_input.zone,
         impacts |-> impacts,
         overall_confidence |-> overall_confidence(impacts),
         recommendation |->
             generate_recommendation(scenario_input.trafficDensityChange,
                 scenario_input.heavyVehicleRestriction, impacts)]

\* what simulate computes before it stores the scenario
simulate(scenario_input) ==
    LET impacts == Impacts(scenario_input)
    IN  [city |-> Lower(scenario_input.city),
         zone |-> scenario_input.zone,
         impacts |-> impacts,
         overall_confidence |-> overall_confidence(impacts),
         recommendation |->
             generate_recommendation(scenario_input.trafficDensityChange,
                 scenario_input.heavyVehicleRestriction, impacts)]

----------------------------------------------------------------------------
(* The facts the families read *)

\* RiskScorer.calculate_city_risk persists one snapshot of the score its
\* components gave
calculate_city_risk(c, score) ==
    /\ risk_scores' = Append(risk_scores,
           [city |-> c, category |-> "overall", score |-> score,
            level |-> determine_level(score), calculated_at |-> now])
    /\ last' = Stale
    /\ UNCHANGED <<now, alerts, anomalies, forecasts, sources, env_data,
                   traffic_data, service_data, call, res, scenarios, replies>>

\* an Anomaly row is written
store_anomaly(c, severity) ==
    /\ anomalies' = Append(anomalies,
           [city |-> c, severity |-> severity, detected_at |-> now,
            resolved |-> FALSE])
    /\ last' = Stale
    /\ UNCHANGED <<now, alerts, risk_scores, forecasts, sources, env_data,
                   traffic_data, service_data, call, res, scenarios, replies>>

\* a Forecast row is written
ForecastCreate(c, metric, target, value) ==
    /\ forecasts' = Append(forecasts,
           [city |-> c, metric_type |-> metric, target_date |-> target,
            predicted_value |-> value])
    /\ last' = Stale
    /\ UNCHANGED <<now, alerts, risk_scores, anomalies, sources, env_data,
                   traffic_data, service_data, call, res, scenarios, replies>>

----------------------------------------------------------------------------
(* TimeSeriesForecaster.  Readings are integers in the unit the table      *)
(* stores (AQI points, degrees; stress and efficiency in hundredths),      *)
(* predicted values are hundredths of the metric's unit.                   *)

FORECAST_DAYS == 7
FORECAST_MIN_POINTS == 7
FORECAST_HISTORY_DAYS == 30
ALPHA_TENTHS == 3
LevelScale == 100 * 100

\* level = alpha * value + (1 - alpha) * level over the values, the level
\* held to four decimals of the reading's unit: exact as long as at most
\* four readings move the level, as in every series of this model
RECURSIVE SmoothLevel(_, _)
SmoothLevel(values, level) ==
    IF values = <<>> THEN level
    ELSE SmoothLevel(Tail(values),
             (ALPHA_TENTHS * Head(values) * LevelScale
                  + (10 - ALPHA_TENTHS) * level + 5) \div 10)

\* _exponential_smoothing(values, horizon): the constant forecast level
exponential_smoothing(values) ==
    IF values = <<>> THEN 0
    ELSE SmoothLevel(values, values[1] * LevelScale)

\* round(float(predicted_value), 2) in hundredths of the metric's unit;
\* per: readings per unit of the metric (1, or 100 for hundredths)
PredictedValue(level, per) ==
    ((level * 100) \div per + LevelScale \div 2) \div LevelScale

\* utcnow().date() + timedelta(days = i)
TargetDate(t, i) == (t \div Days(1)) * Days(1) + Days(i)

\* the non-null values of one column
Column(rows, metric) ==
    LET v == SelectSeq(rows, LAMBDA d : d[metric] # NULL)
    IN  [k \in 1..Len(v) |-> v[k][metric]]

\* the forecasts of one metric, one per day of the horizon
MetricForecasts(c, metric_type, values, per, t) ==
    IF Len(values) < FORECAST_MIN_POINTS THEN <<>>
    ELSE [i \in 1..FORECAST_DAYS |->
            [city |-> c, metric_type |-> metric_type,
             target_date |-> TargetDate(t, i),
             predicted_value |->
                 PredictedValue(exponential_smoothing(values), per)]]

forecast_environment_metrics(c, t) ==
    LET historical_data == Since(env_data[c], t - Days(FORECAST_HISTORY_DAYS))
        one(metric) == MetricForecasts(c, "environment_" \o metric,
                           Column(historical_data, metric), 1, t)
    IN  IF Len(historical_data) < FORECAST_MIN_POINTS THEN <<>>
        ELSE one("aqi") \o one("pm25") \o one("temperature") \o one("rainfall")

forecast_service_stress(c, t) ==
    LET historical_data ==
            Since(service_data[c], t - Days(FORECAST_HISTORY_DAYS))
        one(metric, per) == MetricForecasts(c, "service_" \o metric,
                                Column(historical_data, metric), per, t)
    IN  IF Len(historical_data) < FORECAST_MIN_POINTS THEN <<>>
        ELSE one("water_supply_stress", 100)
                 \o one("waste_collection_eff", 100)
                 \o one("power_outage_count", 1)

forecast_traffic_congestion(c, zone, t) ==
    LET historical_data ==
            SelectSeq(Since(traffic_data[c], t - Days(FORECAST_HISTORY_DAYS)),
                      LAMBDA d : d.zone = zone)
    IN  MetricForecasts(c, "traffic_density",
            [k \in 1..Len(historical_data) |->
                historical_data[k].density_percent], 1, t)

\* save_forecasts_to_db: one Forecast.create per forecast
save_forecasts_to_db(tbl, rows) == tbl \o rows

\* the forecasts run_forecasting_job makes for one city
CityForecasts(c, t) ==
    forecast_environment_metrics(c, t)
        \o forecast_service_stress(c, t)
        \o forecast_traffic_congestion(c, "A", t)
        \o forecast_traffic_congestion(c, "B", t)
        \o forecast_traffic_congestion(c, "C", t)

CityOrder == <<"c1", "c2">>

\* run_forecasting_job: every city in turn
run_forecasting_job ==
    /\ LET F[k \in 0..Len(CityOrder)] ==
               IF k = 0 THEN forecasts
               ELSE save_forecasts_to_db(F[k - 1],
                                         CityForecasts(CityOrder[k], now))
       IN  forecasts' = F[Len(CityOrder)]
    /\ last' = Stale
    /\ UNCHANGED <<now, alerts, risk_scores, anomalies, sources, env_data,
                   traffic_data, service_data, call, res, scenarios, replies>>

\* a ServiceData row is ingested
ServiceDataCreate(c, stress) ==
    /\ service_data' = [service_data EXCEPT ![c] =
           Append(@, [timestamp |-> now, water_supply_stress |-> stress,
                      waste_collection_eff |-> 90, power_outage_count |-> 0])]
    /\ last' = Stale
    /\ UNCHANGED <<now, alerts, risk_scores, anomalies, forecasts, sources,
                   env_data, traffic_data, call, res, scenarios, replies>>

----------------------------------------------------------------------------
NoSource == [exists |-> FALSE, is_online |-> TRUE, failure_count |-> 0]

\* the DataSource row after one more attempt: created by the first attempt,
\* updated by the later ones
SourceAfter(source, success) ==
    IF ~source.exists
    THEN [exists |-> TRUE, is_online |-> success,
          failure_count |-> IF success THEN 0 ELSE 1]
    ELSE IF success
    THEN [source EXCEPT !.is_online = TRUE, !.failure_count = 0]
    ELSE [source EXCEPT !.failure_count = @ + 1,
                        !.is_online = IF source.failure_count + 1
                                             >= OFFLINE_AFTER_FAILURES
                                      THEN FALSE ELSE @]

\* FreshnessTracker.update_source_status(source_id, success)
update_source_status(name, success) ==
    /\ sources' = [sources EXCEPT ![name] = SourceAfter(@, success)]
    /\ last' = Stale
    /\ UNCHANGED <<now, alerts, risk_scores, anomalies, forecasts, env_data,
                   traffic_data, service_data, call, res, scenarios, replies>>

\* an EnvironmentData row is ingested
EnvironmentDataCreate(c, temperature, aqi) ==
    /\ env_data' = [env_data EXCEPT ![c] =
           Append(@, [timestamp |-> now, temperature |-> temperature,
                      aqi |-> aqi, pm25 |-> 35, rainfall |-> 0])]
    /\ last' = Stale
    /\ UNCHANGED <<now, alerts, risk_scores, anomalies, forecasts, sources,
                   traffic_data, service_data, call, res, scenarios, replies>>

\* the clock advances
Tick(dt) ==
    /\ now + dt <= MaxTime
    /\ now' = now + dt
    /\ last' = Stale
    /\ UNCHANGED <<alerts, facts, call, res, replies>>

----------------------------------------------------------------------------
(* The analytics calls.  Each is one action: the call from its city lookup *)
(* to its return, or to the exception that leaves it.  What the caller got *)
(* replaces the content of `replies`.                                      *)

storage == <<alerts, facts>>

Push(reply) == <<reply>>

NoPrior == [impacts |-> <<>>, overall_confidence |-> 0]

\* what the call before this one answered, if that was a simulation of the
\* same input that found the same stored readings (history)
Prior(scenario_input) ==
    IF /\ replies # <<>>
       /\ replies[1].op = "simulate"
       /\ ~replies[1].raised
       /\ replies[1].input = scenario_input
       /\ replies[1].baseline = <<env_data, traffic_data>>
    THEN [impacts |-> replies[1].impacts,
          overall_confidence |-> replies[1].overall_confidence]
    ELSE NoPrior

RiskReply(city_name) ==
    [op |-> "calculate_city_risk", city |-> city_name,
     write_failed |-> FALSE, raised |-> FALSE, error |-> FALSE]

\* the snapshot of a computed risk is written and the result returned; the
\* returned overall_score is rounded to three decimals
RiskStored(city, city_name, risk) ==
    /\ risk_scores' = Append(risk_scores,
           [city |-> city, category |-> "overall", score |-> risk.score,
            level |-> risk.level, calculated_at |-> now])
    /\ replies' = Push(RiskReply(city_name) @@
           [overall_score |-> Round(risk.score, 100),
            risk_level |-> risk.level,
            components |-> risk.components])
    /\ last' = Stale
    /\ UNCHANGED <<now, alerts, anomalies, forecasts, sources, env_data,
                   traffic_data, service_data, call, res, scenarios>>

\* the city's snapshot is kept up to date in place: a city that has one gets
\* it overwritten instead of a new row
RiskOfCityUpsert(city, city_name, ok) ==
    LET risk == CityRisk(city, now)
        row == [city |-> city, category |-> "overall", score |-> risk.score,
                level |-> risk.level, calculated_at |-> now]
        mine == {i \in 1..Len(risk_scores) : risk_scores[i].city = city}
    IN  /\ ok
        /\ risk_scores' =
               IF mine = {} THEN Append(risk_scores, row)
               ELSE [risk_scores EXCEPT
                        ![CHOOSE i \in mine : \A j \in mine : j <= i] = row]
        /\ replies' = Push(RiskReply(city_name) @@
               [overall_score |-> Round(risk.score, 100),
                risk_level |-> risk.level,
                components |-> risk.components])
        /\ last' = Stale
        /\ UNCHANGED <<now, alerts, anomalies, forecasts, sources, env_data,
                       traffic_data, service_data, call, res, scenarios>>

\* calculate_city_risk once the city is found: the components, the weighted
\* score and its level, RiskScore.create (ok = FALSE: it raises) and the
\* returned dict
RiskOfCity(city, city_name, ok) ==
    IF ~ok
    THEN /\ replies' = Push([RiskReply(city_name) EXCEPT
                                !.write_failed = TRUE, !.raised = TRUE])
         /\ UNCHANGED <<now, storage, call, res, last>>
    ELSE RiskStored(city, city_name, CityRisk(city, now))

\* the result of the lookup is used unchecked: for a name without a city
\* the snapshot cannot be written and the exception leaves the call
RiskWithoutCityCheck(city_name, ok) ==
    LET city == CityLookup(city_name)
    IN  IF city = "None"
        THEN /\ replies' = Push([RiskReply(city_name) EXCEPT
                                    !.raised = TRUE])
             /\ UNCHANGED <<now, storage, call, res, last>>
        ELSE RiskOfCity(city, city_name, ok)

\* RiskScorer.calculate_city_risk
RiskScorer_calculate_city_risk(city_name, ok) ==
    LET city == CityLookup(city_name)
    IN  IF city = "None"
        THEN /\ replies' = Push([RiskReply(city_name) EXCEPT
                                    !.error = TRUE])
             /\ UNCHANGED <<now, storage, call, res, last>>
        ELSE RiskOfCity(city, city_name, ok)

\* AnomalyDetector.detect_all_anomalies: it reads and stores nothing
\* how many readings of each kind a city has (history: the tables only
\* grow, so the counts tell which readings a call has seen)
RowCounts(city) ==
    IF city = "None" THEN <<0, 0, 0>>
    ELSE <<Len(env_data[city]), Len(traffic_data[city]),
           Len(service_data[city])>>

\* detect_all_anomalies(city_name): the "City not found" dict, the result
\* dict, or the exception of a check; nothing is stored
AnomalyDetector_detect_all_anomalies(city_name) ==
    LET city == CityLookup(city_name)
        reply == [op |-> "detect_all_anomalies", city |-> city_name,
                  write_failed |-> FALSE, seen |-> RowCounts(city)]
        result == detect_all_anomalies(city, now)
    IN  /\ replies' = Push(
               IF city = "None"
               THEN reply @@ [error |-> TRUE, raised |-> FALSE,
                              total_count |-> 0]
               ELSE IF result = Raises
               THEN reply @@ [error |-> FALSE, raised |-> TRUE]
               ELSE reply @@ [error |-> FALSE, raised |-> FALSE,
                              environment_anomalies |->
                                  result.environment_anomalies,
                              traffic_anomalies |-> result.traffic_anomalies,
                              service_anomalies |-> result.service_anomalies,
                              total_count |-> result.total_count])
        /\ UNCHANGED <<now, storage, call, res, last>>

\* ScenarioEngine.simulate; ok = FALSE: Scenario.create raises.  The reply
\* also records the input and the readings the call found (history).
ScenarioEngine_simulate(scenario_input, ok) ==
    LET city_obj == CityLookup(Lower(scenario_input.city))
        result == simulate(scenario_input)
        reply == [op |-> "simulate", city |-> result.city, error |-> FALSE,
                  input |-> scenario_input,
                  baseline |-> <<env_data, traffic_data>>,
                  prior |-> Prior(scenario_input)]
    IN  IF city_obj = "None"
        THEN /\ replies' = Push(reply @@
                    [write_failed |-> FALSE, raised |-> FALSE,
                     scenario_id |-> 0, impacts |-> result.impacts,
                     overall_confidence |-> result.overall_confidence,
                     recommendation |-> result.recommendation])
             /\ UNCHANGED <<now, storage, call, res, last>>
        ELSE IF ~ok
        THEN /\ replies' = Push(reply @@
                    [write_failed |-> TRUE, raised |-> TRUE])
             /\ UNCHANGED <<now, storage, call, res, last>>
        ELSE /\ scenarios' = Append(scenarios,
                    [city |-> city_obj,
                     \* baselineAQI: after the zone factor, in hundredths
                     inputs |-> [scenario_input EXCEPT
                         !.baselineAQI = BaselineAQI(scenario_input)
                             * zone_characteristics(scenario_input.zone)
                                   .baseline_aqi_factor,
                         !.baselineTrafficDensity =
                             analyze_time_window(scenario_input.timeWindow)
                                 .baseline_traffic],
                     outputs |-> [impacts |-> result.impacts,
                                  recommendation |-> result.recommendation],
                     confidence |-> ConfidenceOf(result.impacts),
                     created_at |-> now])
             /\ replies' = Push(reply @@
                    [write_failed |-> FALSE, raised |-> FALSE,
                     scenario_id |-> Len(scenarios) + 1,
                     impacts |-> result.impacts,
                     overall_confidence |-> result.overall_confidence,
                     recommendation |-> result.recommendation])
             /\ last' = Stale
             /\ UNCHANGED <<now, alerts, risk_scores, anomalies, forecasts,
                            sources, env_data, traffic_data, service_data,
                            call, res>>

\* a TrafficData row is ingested
TrafficDataCreate(c, zone, density_percent, congestion_level) ==
    /\ traffic_data' = [traffic_data EXCEPT ![c] =
           Append(@, [timestamp |-> now, zone |-> zone,
                      density_percent |-> density_percent,
                      congestion_level |-> congestion_level])]
    /\ last' = Stale
    /\ UNCHANGED <<now, alerts, risk_scores, anomalies, forecasts, sources,
                   env_data, service_data, call, res, scenarios, replies>>

----------------------------------------------------------------------------
(* Initial states *)

SourceSet == {SourceNames[i] : i \in 1..Len(SourceNames)}

\* n readings, one per quarter hour, the last one at time t: a flat baseline
\* (25 degrees, AQI 100, PM2.5 35) whose last reading is (temperature, aqi)
EnvSeries(n, t, temperature, aqi) ==
    [k \in 1..n |->
        [timestamp |-> t - (n - k),
         temperature |-> IF k = n THEN temperature ELSE 25,
         aqi |-> IF k = n THEN aqi ELSE 100,
         pm25 |-> 35, rainfall |-> 0]]

\* n traffic readings of zone A, one per quarter hour, all "low" (density
\* 20 percent) but the last (density 90 percent)
TrafficSeries(n, t, level) ==
    [k \in 1..n |->
        [timestamp |-> t - (n - k), zone |-> "A",
         density_percent |-> IF k = n THEN 90 ELSE 20,
         congestion_level |-> IF k = n THEN level ELSE "low"]]

\* n service readings, one per quarter hour: water stress 0.8, collection
\* efficiency 0.9 and no outage, the last reading with water stress `stress`
ServiceSeries(n, t, stress) ==
    [k \in 1..n |->
        [timestamp |-> t - (n - k),
         water_supply_stress |-> IF k = n THEN stress ELSE 80,
         waste_collection_eff |-> 90,
         power_outage_count |-> 0]]

\* storage as the sequential and the concurrent specification find it: city
\* c1 may have a day of readings ending in a temperature spike
InitSeq ==
    /\ now = StartTime
    /\ alerts = <<>>
    /\ risk_scores = <<>>
    /\ anomalies = <<>>
    /\ forecasts = <<>>
    /\ sources = [n \in SourceSet |-> NoSource]
    /\ \E n \in {0, ML_MIN_POINTS + 1} :
          env_data = [c \in Cities |->
                        IF c = "c1" THEN EnvSeries(n, StartTime, 40, 100)
                        ELSE <<>>]
    /\ traffic_data = [c \in Cities |-> <<>>]
    /\ service_data = [c \in Cities |-> <<>>]
    /\ call = [p \in Procs |-> IdleCall]
    /\ res = [r \in Resolvers |-> IdleRes]
    /\ last = NoLast
    /\ scenarios = <<>>
    /\ replies = <<>>

----------------------------------------------------------------------------
(* Sequential specification: requests and changes of the facts do not      *)
(* overlap; one request runs from its first step to its return.            *)

Quiet ==
    /\ \A p \in Procs : call[p].pc = "idle"
    /\ \A r \in Resolvers : res[r].pc = "idle"

\* the number of facts the families can read
TotalFacts ==
    Len(risk_scores) + Len(anomalies) + Len(forecasts)
    + Cardinality({n \in SourceSet : sources[n].exists})
    + Cardinality({c \in Cities : env_data[c] # <<>>})

Room == TotalFacts < MaxFacts

SeqScores == {Hundredths(40), Hundredths(80)}
SeqSeverities == {"high"}
SeqForecasts == {<<"aqi", 25000>>, <<"environment_aqi", 25000>>}
SeqTick == Hours(3)

SeqStart ==
    /\ Quiet
    /\ Len(alerts) < MaxAlerts
    /\ \E name \in CityNames : StartGen(1, name, TRUE)

SeqResolve ==
    /\ Quiet
    /\ \E id \in 1..Len(alerts) : ResolveFetch(1, id, FALSE)

SeqRisk ==
    /\ Quiet /\ Room
    /\ Len(risk_scores) < MaxRisk
    /\ \E c \in Cities, score \in SeqScores : calculate_city_risk(c, score)

SeqAnomaly ==
    /\ Quiet /\ Room
    /\ Len(anomalies) < MaxAnomalies
    /\ \E c \in Cities, severity \in SeqSeverities : store_anomaly(c, severity)

SeqForecast ==
    /\ Quiet /\ Room
    /\ Len(forecasts) < MaxForecasts
    /\ \E c \in Cities, f \in SeqForecasts :
          ForecastCreate(c, f[1], now + Hours(12), f[2])

SeqSource ==
    /\ Quiet
    /\ \E n \in SourceSet, success \in BOOLEAN :
          /\ sources[n].failure_count < MaxFailures
          /\ sources[n].exists \/ Room
          /\ update_source_status(n, success)

SeqTime == Quiet /\ Tick(SeqTick)

NextSeq ==
    \/ SeqStart
    \/ FamilyQuery(1)
    \/ ItemCheck(1)
    \/ ItemCreate(1)
    \/ ReturnGen(1)
    \/ SeqResolve
    \/ ResolveSave(1)
    \/ SeqRisk
    \/ SeqAnomaly
    \/ SeqForecast
    \/ SeqSource
    \/ SeqTime

SpecSeq == InitSeq /\ [][NextSeq]_vars

----------------------------------------------------------------------------
(* Claims checked under SpecSeq *)

SameSignature(a, b) ==
    /\ a.city = b.city
    /\ a.type = b.type
    /\ a.key = b.key
    /\ a.sig = b.sig

\* C1: under non-overlapping generate_all_alerts and resolve_alert calls and
\* changes of the facts, no two active alerts share (city, type, signature).
C1_OneActivePerSignature ==
    \A i, j \in 1..Len(alerts) :
        (i < j /\ alerts[i].is_active /\ alerts[j].is_active)
            => ~SameSignature(alerts[i], alerts[j])

\* C1 witness: an alert was resolved and its signature raised again, so the
\* dedup lookup has let a second alert of that signature through, and alerts
\* of two families are active.
C1_Witness ==
    /\ \E i, j \in 1..Len(alerts) :
          /\ i < j
          /\ ~alerts[i].is_active
          /\ alerts[j].is_active
          /\ SameSignature(alerts[i], alerts[j])
    /\ \E i, j \in 1..Len(alerts) :
          /\ alerts[i].is_active /\ alerts[j].is_active
          /\ alerts[i].key # alerts[j].key

\* C3: a generate_all_alerts call that follows a completed, failure-free call
\* for the same city with nothing changed in between creates no alert and
\* returns alerts_created = 0 and a breakdown of zeros.
C3_SecondCallCreatesNothing ==
    \A p \in Procs :
        call[p].second =>
            /\ call[p].ids = {}
            /\ call[p].pc = "done" =>
                  /\ Result(call[p]).alerts_created = 0
                  /\ \A k \in 1..Len(FamilyOrder) :
                        Result(call[p]).breakdown[k] = 0

\* C3 witness: the second call has returned its result, and the first call
\* had created an alert.
C3_Witness ==
    \E p \in Procs :
        /\ call[p].pc = "done"
        /\ call[p].second
        /\ last.created >= 1

\* the alerts of the table that call c created in family number k
CreatedRows(c, k) ==
    {i \in c.ids : /\ alerts[i].key = SigKey(FamilyOrder[k])
                   /\ alerts[i].type = AlertType(FamilyOrder[k])}

\* every row the family reads that calls for an alert has an active one
FamilyServed(f, c) ==
    \A k \in 1..Len(Query(f, c, now)) :
        LET item == Query(f, c, now)[k]
        IN  Severity(f, item) # NoAlert => Existing(alerts, f, c, item)

\* C8 (as claimed): after generate_all_alerts(c), every offline data source
\* has exactly one active system alert of city c naming it, warning/internal.
C8_SystemAlertPerCity ==
    \A p \in Procs :
        (call[p].pc = "done" /\ ~call[p].error) =>
            \A n \in SourceSet :
                (sources[n].exists /\ ~sources[n].is_online) =>
                    /\ Cardinality({i \in 1..Len(alerts) :
                            /\ alerts[i].type = "system"
                            /\ alerts[i].is_active
                            /\ alerts[i].city = call[p].city
                            /\ MetadataContains(alerts[i], "source_id", <<n>>)
                            /\ alerts[i].severity = "warning"
                            /\ alerts[i].audience = "internal"}) = 1

----------------------------------------------------------------------------
(* Specification with storage failures: a storage operation of a running   *)
(* generate_all_alerts call may raise.  Storage starts with facts of every *)
(* family for city c1 and an offline data source.                          *)

InitFault ==
    /\ now = StartTime
    /\ alerts = <<>>
    /\ risk_scores = <<[city |-> "c1", category |-> "overall",
                        score |-> Hundredths(60),
                        level |-> determine_level(Hundredths(60)),
                        calculated_at |-> StartTime]>>
    /\ anomalies = <<[city |-> "c1", severity |-> "medium",
                      detected_at |-> StartTime, resolved |-> FALSE]>>
    /\ forecasts = <<[city |-> "c1", metric_type |-> "aqi",
                      target_date |-> StartTime + Hours(12),
                      predicted_value |-> 25000],
                     [city |-> "c1", metric_type |-> "pm25",
                      target_date |-> StartTime + Hours(20),
                      predicted_value |-> 4000]>>
    /\ sources = [n \in SourceSet |->
                    [exists |-> TRUE, is_online |-> FALSE, failure_count |-> 1]]
    /\ env_data = [c \in Cities |->
          IF c = "c1" THEN EnvSeries(ML_MIN_POINTS + 1, StartTime, 40, 100)
          ELSE <<>>]
    /\ traffic_data = [c \in Cities |-> <<>>]
    /\ service_data = [c \in Cities |-> <<>>]
    /\ call = [p \in Procs |-> IdleCall]
    /\ res = [r \in Resolvers |-> IdleRes]
    /\ last = NoLast
    /\ scenarios = <<>>
    /\ replies = <<>>

FaultStart ==
    /\ Quiet
    /\ Len(alerts) < MaxAlerts
    /\ \E name \in CityNames, ok \in BOOLEAN : StartGen(1, name, ok)

NextFault ==
    \/ FaultStart
    \/ FamilyQuery(1)
    \/ ItemCheck(1)
    \/ ItemCreate(1)
    \/ GenFault(1)
    \/ ReturnGen(1)
    \/ SeqResolve
    \/ ResolveSave(1)

SpecFault == InitFault /\ [][NextFault]_vars

\* C5: when a family of a generate_all_alerts call fails, the call still
\* returns the structured result; every family that did not fail has served
\* all its rows; and the breakdown counts, family by family, exactly the
\* alerts the call inserted, the failing family's earlier ones included.
C5_FamiliesIsolated ==
    \A p \in Procs :
        (call[p].pc = "done" /\ call[p].city \in Cities
            /\ \E k \in 1..Len(FamilyOrder) : call[p].failed[k]) =>
            /\ ~Result(call[p]).error
            /\ \A k \in 1..Len(FamilyOrder) :
                  /\ Result(call[p]).breakdown[k]
                        = Cardinality(CreatedRows(call[p], k))
                  /\ ~call[p].failed[k] =>
                        FamilyServed(FamilyOrder[k], call[p].city)
            /\ Result(call[p]).alerts_created = Cardinality(call[p].ids)

\* C5 witness: a call has returned in which the forecast family failed after
\* its first insert, an earlier family failed before any insert, and the
\* system family, which ran last, inserted its alert.
C5_Witness ==
    \E p \in Procs :
        /\ call[p].pc = "done"
        /\ call[p].failed[4] /\ call[p].created[4] = 1
        /\ call[p].failed[1] /\ call[p].created[1] = 0
        /\ ~call[p].failed[5] /\ call[p].created[5] = 1

----------------------------------------------------------------------------
(* Concurrent specification: up to two requests are in flight and their    *)
(* steps interleave at every await.  Storage holds a risk snapshot of city *)
(* c1 and an offline data source.                                          *)

InitConc ==
    /\ now = StartTime
    /\ alerts = <<>>
    /\ \E score \in {Hundredths(60), Hundredths(80)} :
          risk_scores = <<[city |-> "c1", category |-> "overall",
                           score |-> score, level |-> determine_level(score),
                           calculated_at |-> StartTime]>>
    /\ anomalies = <<>>
    /\ forecasts = <<>>
    /\ sources = [n \in SourceSet |->
                    [exists |-> TRUE, is_online |-> FALSE, failure_count |-> 1]]
    /\ env_data = [c \in Cities |-> <<>>]
    /\ traffic_data = [c \in Cities |-> <<>>]
    /\ service_data = [c \in Cities |-> <<>>]
    /\ call = [p \in Procs |-> IdleCall]
    /\ res = [r \in Resolvers |-> IdleRes]
    /\ last = NoLast
    /\ scenarios = <<>>
    /\ replies = <<>>

InFlight ==
    Cardinality({p \in Procs : call[p].pc # "idle"})
    + Cardinality({r \in Resolvers : res[r].pc # "idle"})

MaxInFlight == 2

ConcStart ==
    /\ InFlight < MaxInFlight
    /\ Len(alerts) < MaxAlerts
    /\ \E p \in Procs, name \in Cities : StartGen(p, name, TRUE)

NextConc ==
    \/ ConcStart
    \/ \E p \in Procs : FamilyQuery(p)
    \/ \E p \in Procs : ItemCheck(p)
    \/ \E p \in Procs : ItemCreate(p)
    \/ \E p \in Procs : ReturnGen(p)

SpecConc == InitConc /\ [][NextConc]_vars

(* generate_all_alerts run alone, from table tbl at time t: the families   *)
(* in order, each row looked up against the table as it stands then        *)

RECURSIVE RunItems(_, _, _, _, _)
RunItems(tbl, f, c, items, p) ==
    IF items = <<>> THEN tbl
    ELSE LET item == Head(items)
             skip == \/ SkipsBeforeLookup(f, item)
                     \/ Existing(tbl, f, c, item)
                     \/ Severity(f, item) = NoAlert
         IN  RunItems(IF skip THEN tbl
                      ELSE Append(tbl, NewAlert(c, AlertType(f), SigKey(f),
                                                Sig(f, item), Severity(f, item),
                                                item, Info(f, item), p)),
                      f, c, Tail(items), p)

RECURSIVE RunFamilies(_, _, _, _, _)
RunFamilies(tbl, c, t, k, p) ==
    IF k > Len(FamilyOrder) THEN tbl
    ELSE RunFamilies(RunItems(tbl, FamilyOrder[k], c,
                              Query(FamilyOrder[k], c, t), p),
                     c, t, k + 1, p)

generate_all_alerts(tbl, c, t, p) == RunFamilies(tbl, c, t, 1, p)

\* which city owns which type and signature
Owners(tbl) ==
    {<<tbl[i].city, tbl[i].type, tbl[i].key, tbl[i].sig>> : i \in 1..Len(tbl)}

\* both calls are over, for two cities, one started while the other ran,
\* and nothing else touched storage or the clock since the first began
BothDone ==
    /\ call[1].pc = "done" /\ call[2].pc = "done"
    /\ ~call[1].error /\ ~call[2].error
    /\ call[1].city # call[2].city
    /\ call[1].overlap \/ call[2].overlap
    /\ call[1].t0 = now /\ call[2].t0 = now

FirstBase == IF call[1].overlap THEN call[2].base ELSE call[1].base

\* C6 (as claimed): after two overlapping generate_all_alerts calls for two
\* different cities, the alerts are those of the two calls run one after
\* the other in some order.
C6_CitiesSerializable ==
    BothDone =>
        \E p \in Procs :
            LET q == CHOOSE r \in Procs : r # p
            IN  Owners(alerts) =
                    Owners(generate_all_alerts(
                               generate_all_alerts(FirstBase, call[p].city,
                                                   now, p),
                               call[q].city, now, q))

\* a call that ran alone ends with the table generate_all_alerts computes
RunAloneMatches ==
    (call[1].pc = "done" /\ ~call[1].error /\ call[1].t0 = now
     /\ \A k \in 1..5 : ~call[1].failed[k])
        => alerts = generate_all_alerts(call[1].base, call[1].city, now, 1)

(* Resolver specification: one generate_all_alerts call at a time fills    *)
(* the table while up to two resolve_alert requests overlap it and each    *)
(* other, and the clock advances between their steps.                      *)

ResolveStart ==
    /\ InFlight < MaxInFlight
    /\ \E r \in Resolvers, id \in 1..Len(alerts), ack \in BOOLEAN :
          ResolveFetch(r, id, ack)

ResolveGen ==
    /\ InFlight < MaxInFlight
    /\ Len(alerts) < MaxAlerts
    /\ \E name \in Cities : StartGen(1, name, TRUE)

NextResolve ==
    \/ ResolveGen
    \/ FamilyQuery(1)
    \/ ItemCheck(1)
    \/ ItemCreate(1)
    \/ ReturnGen(1)
    \/ ResolveStart
    \/ \E r \in Resolvers : ResolveSave(r)
    \/ Tick(SeqTick)

SpecResolve == InitConc /\ [][NextResolve]_vars

\* C2 (as claimed): two overlapping generate_all_alerts calls never both
\* insert an active alert of the same (city, type, signature).
C2_AtomicDedup ==
    \A i \in call[1].ids, j \in call[2].ids :
        ~(/\ alerts[i].is_active
          /\ alerts[j].is_active
          /\ SameSignature(alerts[i], alerts[j]))

\* C4 (as claimed): a new alert is active with resolved_at unset; an alert
\* that leaves the active state has resolved_at set; and no step reactivates
\* a resolved alert or changes its resolved_at.
C4_ResolvedIsTerminal ==
    [][/\ Len(alerts') >= Len(alerts)
       /\ \A i \in 1..Len(alerts') :
             IF i > Len(alerts)
             THEN alerts'[i].is_active /\ alerts'[i].resolved_at = NULL
             ELSE IF alerts[i].is_active
             THEN alerts'[i].is_active \/ alerts'[i].resolved_at # NULL
             ELSE /\ ~alerts'[i].is_active
                  /\ alerts'[i].resolved_at = alerts[i].resolved_at]_vars

----------------------------------------------------------------------------
(* Risk specification: city c1 has a history of risk snapshots, one of     *)
(* score s calculated five hours ago followed by k low-score snapshots a   *)
(* quarter of an hour apart; calls, resolutions, new snapshots and the     *)
(* clock follow one another.                                               *)

MaxHistory == 10
RiskTick == Hours(1)
RiskScores == {Hundredths(40), Hundredths(50), Hundredths(70)}

History(s, k) ==
    [i \in 1..(k + 1) |->
        [city |-> "c1", category |-> "overall",
         score |-> IF i = 1 THEN s ELSE Hundredths(40),
         level |-> determine_level(IF i = 1 THEN s ELSE Hundredths(40)),
         calculated_at |-> StartTime - Hours(5) + (i - 1)]]

InitRisk ==
    /\ now = StartTime
    /\ alerts = <<>>
    /\ \E s \in RiskScores, k \in {0, MaxHistory - 1, MaxHistory} :
          risk_scores = History(s, k)
    /\ anomalies = <<>>
    /\ forecasts = <<>>
    /\ sources = [n \in SourceSet |-> NoSource]
    /\ env_data = [c \in Cities |-> <<>>]
    /\ traffic_data = [c \in Cities |-> <<>>]
    /\ service_data = [c \in Cities |-> <<>>]
    /\ call = [p \in Procs |-> IdleCall]
    /\ res = [r \in Resolvers |-> IdleRes]
    /\ last = NoLast
    /\ scenarios = <<>>
    /\ replies = <<>>

RiskAdd ==
    /\ Quiet
    /\ \E k \in {0, MaxHistory - 1, MaxHistory} :
          Len(risk_scores) = k + 1
    /\ \E score \in RiskScores : calculate_city_risk("c1", score)

RiskTime == Quiet /\ Tick(RiskTick)

NextRisk ==
    \/ SeqStart
    \/ FamilyQuery(1)
    \/ ItemCheck(1)
    \/ ItemCreate(1)
    \/ ReturnGen(1)
    \/ SeqResolve
    \/ ResolveSave(1)
    \/ RiskAdd
    \/ RiskTime

SpecRisk == InitRisk /\ [][NextRisk]_vars

\* the city's snapshots calculated within the last six hours
RecentSnapshots(c) ==
    {i \in 1..Len(risk_scores) :
        /\ risk_scores[i].city = c
        /\ risk_scores[i].calculated_at >= now - Hours(RISK_WINDOW_HOURS)}

ActiveRiskAlert(tbl, c, category) ==
    \E j \in 1..Len(tbl) :
        /\ tbl[j].is_active
        /\ tbl[j].city = c
        /\ tbl[j].type = "risk"
        /\ tbl[j].sig = <<category>>

\* C7 (as claimed): after a call, every snapshot of the city from the last
\* six hours with a score of 0.5 or more has an active risk alert for its
\* category; every risk alert the call created stands for such a snapshot
\* whose category had no active risk alert, critical/both from 0.7 and
\* warning/internal below; snapshots older than six hours or below 0.5
\* create nothing.
C7_RiskSnapshots ==
    (/\ call[1].pc = "done" /\ ~call[1].error /\ call[1].t0 = now
     /\ call[1].city \in Cities) =>
        LET c == call[1].city
        IN  /\ \A i \in RecentSnapshots(c) :
                  risk_scores[i].score >= Hundredths(RISK_THRESHOLDS_medium) =>
                      ActiveRiskAlert(alerts, c, risk_scores[i].category)
            /\ \A j \in call[1].ids :
                  alerts[j].type = "risk" =>
                      /\ alerts[j].ref \in RecentSnapshots(c)
                      /\ ~ActiveRiskAlert(call[1].base, c, alerts[j].sig[1])
                      /\ LET score == risk_scores[alerts[j].ref].score
                         IN  /\ score >= Hundredths(RISK_THRESHOLDS_medium)
                             /\ alerts[j].severity =
                                  (IF score >= Hundredths(RISK_THRESHOLDS_high)
                                   THEN "critical" ELSE "warning")
                             /\ alerts[j].audience =
                                  (IF score >= Hundredths(RISK_THRESHOLDS_high)
                                   THEN "both" ELSE "internal")

\* the snapshots the call examines: of the recent ones, the ten newest
ExaminedSnapshots(c) ==
    {i \in RecentSnapshots(c) :
        Cardinality({j \in RecentSnapshots(c) : j > i}) < RISK_QUERY_LIMIT}

\* C7 (amended): after a call, every one of the city's ten most recent
\* snapshots from the last six hours with a score of 0.5 or more has an
\* active risk alert for its category; every risk alert the call created
\* stands for one of these snapshots whose category had no active risk
\* alert, critical/both from 0.7 and warning/internal below; older
\* snapshots and scores below 0.5 create nothing.
C7_TenMostRecentSnapshots ==
    (/\ call[1].pc = "done" /\ ~call[1].error /\ call[1].t0 = now
     /\ call[1].city \in Cities) =>
        LET c == call[1].city
        IN  /\ \A i \in ExaminedSnapshots(c) :
                  risk_scores[i].score >= Hundredths(RISK_THRESHOLDS_medium) =>
                      ActiveRiskAlert(alerts, c, risk_scores[i].category)
            /\ \A j \in call[1].ids :
                  alerts[j].type = "risk" =>
                      /\ alerts[j].ref \in ExaminedSnapshots(c)
                      /\ ~ActiveRiskAlert(call[1].base, c, alerts[j].sig[1])
                      /\ LET score == risk_scores[alerts[j].ref].score
                         IN  /\ score >= Hundredths(RISK_THRESHOLDS_medium)
                             /\ alerts[j].severity =
                                  (IF score >= Hundredths(RISK_THRESHOLDS_high)
                                   THEN "critical" ELSE "warning")
                             /\ alerts[j].audience =
                                  (IF score >= Hundredths(RISK_THRESHOLDS_high)
                                   THEN "both" ELSE "internal")

\* C7 witness: a call is over that created a critical alert for a snapshot
\* of score exactly 0.7 while more than ten snapshots were recent.
C7_Witness ==
    /\ call[1].pc = "done" /\ call[1].t0 = now
    /\ Cardinality(RecentSnapshots(call[1].city)) > RISK_QUERY_LIMIT
    /\ \E j \in call[1].ids :
          /\ alerts[j].type = "risk"
          /\ alerts[j].severity = "critical"
          /\ risk_scores[alerts[j].ref].score = Hundredths(RISK_THRESHOLDS_high)

\* the most recent snapshot of the city from the last six hours: the row the
\* query of the risk family returns first
LatestSnapshots(c) ==
    IF RiskQuery(c, now) = <<>> THEN {} ELSE {Head(RiskQuery(c, now))}

\* the active risk alerts of the city and category in table tbl
ActiveRiskAlerts(tbl, c, category) ==
    {j \in 1..Len(tbl) : /\ tbl[j].is_active
                         /\ tbl[j].city = c
                         /\ tbl[j].type = "risk"
                         /\ tbl[j].sig = <<category>>}

\* the call is over and its most recent snapshot scores 0.7 or more
HighLatest(i) ==
    /\ call[1].pc = "done" /\ ~call[1].error /\ call[1].t0 = now
    /\ call[1].city \in Cities
    /\ i \in LatestSnapshots(call[1].city)
    /\ risk_scores[i].score >= Hundredths(RISK_THRESHOLDS_high)

CreatedRiskAlerts == {j \in call[1].ids : alerts[j].type = "risk"}

\* the call is over and found no active risk alert when it started
NoRiskAlertBefore ==
    /\ call[1].pc = "done" /\ ~call[1].error /\ call[1].t0 = now
    /\ call[1].city \in Cities
    /\ \A j \in 1..Len(call[1].base) :
          ~(/\ call[1].base[j].is_active
            /\ call[1].base[j].city = call[1].city
            /\ call[1].base[j].type = "risk")

\* the most recent snapshot of the last six hours scores below 0.5
LowLatest ==
    \E i \in LatestSnapshots(call[1].city) :
        risk_scores[i].score < Hundredths(RISK_THRESHOLDS_medium)

\* C27 (as claimed): a risk alert comes from the most recent snapshot only:
\* when the latest snapshot of the last six hours scores below 0.5 and no
\* risk alert is active, the call creates no risk alert, also when older
\* snapshots of the window scored 0.5 or more.
C27_OnlyLatestSnapshot ==
    (NoRiskAlertBefore /\ LowLatest) => CreatedRiskAlerts = {}

\* positions of the rows the call read, newest first, that score 0.5 or more
QualifyingRows ==
    {k \in 1..Len(RiskQuery(call[1].city, now)) :
        risk_scores[RiskQuery(call[1].city, now)[k]].score
            >= Hundredths(RISK_THRESHOLDS_medium)}

\* C27 (amended): with no risk alert active, the call creates a risk alert
\* from the most recent snapshot scoring 0.5 or more among the up to ten
\* snapshots it reads from the last six hours, and only that one: a latest
\* snapshot below 0.5 leaves the call without a risk alert only when every
\* older snapshot it reads scored below 0.5 too.
C27_NewestQualifyingSnapshot ==
    NoRiskAlertBefore =>
        IF QualifyingRows = {}
        THEN CreatedRiskAlerts = {}
        ELSE LET first == CHOOSE k \in QualifyingRows :
                              \A n \in QualifyingRows : k <= n
                 row == RiskQuery(call[1].city, now)[first]
             IN  \E j \in call[1].ids :
                     /\ CreatedRiskAlerts = {j}
                     /\ alerts[j].ref = row
                     /\ alerts[j].severity =
                            RiskSeverity(risk_scores[row].score).severity

\* C27 witness: the latest snapshot scores below 0.5, no risk alert was
\* active, and the call created a risk alert from an older snapshot.
C27_Witness ==
    /\ NoRiskAlertBefore
    /\ LowLatest
    /\ \E j \in CreatedRiskAlerts :
          alerts[j].ref \notin LatestSnapshots(call[1].city)

----------------------------------------------------------------------------
(* ML specification: city c1 has n environment readings, a flat baseline   *)
(* whose last reading may spike in temperature and AQI, and possibly ten   *)
(* traffic readings; calls, resolutions, one more reading and the clock    *)
(* follow one another.                                                     *)

MLSizes == {9, 10, 11, 24, 25}
MLReadings == {<<25, 100>>, <<40, 100>>, <<40, 300>>}

InitML ==
    /\ now = StartTime
    /\ alerts = <<>>
    /\ risk_scores = <<>>
    /\ anomalies = <<>>
    /\ forecasts = <<>>
    /\ sources = [n \in SourceSet |-> NoSource]
    /\ \E n \in MLSizes, r \in MLReadings :
          env_data = [c \in Cities |->
              IF c = "c1" THEN EnvSeries(n, StartTime, r[1], r[2]) ELSE <<>>]
    /\ \E level \in {"low", "high"} :
          traffic_data = [c \in Cities |->
              IF c = "c1" /\ level # "low"
              THEN TrafficSeries(ML_MIN_POINTS, StartTime, level) ELSE <<>>]
    /\ service_data = [c \in Cities |-> <<>>]
    /\ call = [p \in Procs |-> IdleCall]
    /\ res = [r \in Resolvers |-> IdleRes]
    /\ last = NoLast
    /\ scenarios = <<>>
    /\ replies = <<>>

MLIngest ==
    /\ Quiet
    /\ Len(env_data["c1"]) + 1 \in {ML_MIN_POINTS, 25}
    /\ \E r \in MLReadings : EnvironmentDataCreate("c1", r[1], r[2])

NextML ==
    \/ SeqStart
    \/ FamilyQuery(1)
    \/ ItemCheck(1)
    \/ ItemCreate(1)
    \/ ReturnGen(1)
    \/ SeqResolve
    \/ ResolveSave(1)
    \/ MLIngest
    \/ SeqTime

SpecML == InitML /\ [][NextML]_vars

\* the alerts the call in slot p created from ML detection
MLCreated(p) == {j \in call[p].ids : alerts[j].key = "signature"}

\* C9: a call whose detection confidence is below 0.6 creates no ML alert;
\* with a confidence in [0.6, 0.75) none of its ML alerts is critical or for
\* both audiences, a high anomaly giving warning/internal; from 0.75 on,
\* high, medium and low give critical/both, warning/internal and
\* info/internal.  Every ML alert stands for an anomaly the detection
\* reported, and records that anomaly's severity and the confidence.
C9_MLConfidenceGates ==
    /\ (call[1].pc = "done" /\ call[1].t0 = now /\ call[1].city \in Cities) =>
          LET result == detect_anomalies(call[1].city, now)
              conf == result.confidence_score
          IN  /\ conf < ML_ANOMALY_CONFIDENCE_MIN => MLCreated(1) = {}
              /\ \A j \in MLCreated(1) :
                    /\ alerts[j].info.confidence_score = conf
                    /\ \E k \in 1..Len(result.anomalies) :
                          /\ alerts[j].sig = <<"ml", result.anomalies[k].metric,
                                               result.anomalies[k].timestamp>>
                          /\ alerts[j].info.severity
                                = result.anomalies[k].severity
                    /\ conf < ML_ANOMALY_CONFIDENCE_DOWNGRADE =>
                          /\ alerts[j].severity # "critical"
                          /\ alerts[j].audience # "both"
                          /\ alerts[j].info.severity = "high" =>
                                /\ alerts[j].severity = "warning"
                                /\ alerts[j].audience = "internal"
                    /\ conf >= ML_ANOMALY_CONFIDENCE_DOWNGRADE =>
                          /\ alerts[j].info.severity = "high" =>
                                /\ alerts[j].severity = "critical"
                                /\ alerts[j].audience = "both"
                          /\ alerts[j].info.severity = "medium" =>
                                /\ alerts[j].severity = "warning"
                                /\ alerts[j].audience = "internal"
    /\ \A conf \in ML_ANOMALY_CONFIDENCE_DOWNGRADE..95 :
          MLSeverity("low", conf) = [severity |-> "info",
                                     audience |-> "internal"]

\* C9 witness: the table holds a resolved warning/internal alert made from a
\* high anomaly at a confidence below 0.75, and the call that just ended
\* made a critical/both alert from a high anomaly at a confidence of 0.75.
C9_Witness ==
    /\ call[1].pc = "done" /\ call[1].t0 = now
    /\ \E j \in MLCreated(1) :
          /\ alerts[j].info.severity = "high"
          /\ alerts[j].info.confidence_score = ML_ANOMALY_CONFIDENCE_DOWNGRADE
          /\ alerts[j].severity = "critical"
          /\ alerts[j].audience = "both"
    /\ \E i \in 1..Len(alerts) :
          /\ alerts[i].key = "signature"
          /\ alerts[i].info.severity = "high"
          /\ alerts[i].info.confidence_score < ML_ANOMALY_CONFIDENCE_DOWNGRADE
          /\ alerts[i].severity = "warning"
          /\ alerts[i].audience = "internal"

----------------------------------------------------------------------------
(* Forecast specification: city c1 has environment readings (a flat        *)
(* baseline of AQI 100 and PM2.5 35 whose last reading has the AQI drawn)  *)
(* and possibly service readings; the forecasting job, single forecast     *)
(* rows, ingested readings, calls, resolutions and the clock follow one    *)
(* another.                                                                *)

ForecastSizes == {6, 7}
ForecastAQIs == {50, 100, 500}
ForecastStress == {0, 80}

InitForecast ==
    /\ now = StartTime
    /\ alerts = <<>>
    /\ risk_scores = <<>>
    /\ anomalies = <<>>
    /\ forecasts = <<>>
    /\ sources = [n \in SourceSet |-> NoSource]
    /\ \E n \in ForecastSizes, aqi \in ForecastAQIs, stress \in ForecastStress :
          /\ env_data = [c \in Cities |->
                IF c = "c1" THEN EnvSeries(n, StartTime, 25, aqi) ELSE <<>>]
          /\ service_data = [c \in Cities |->
                IF c = "c1" THEN ServiceSeries(n, StartTime, stress)
                ELSE <<>>]
    /\ traffic_data = [c \in Cities |->
          IF c = "c1" THEN TrafficSeries(FORECAST_MIN_POINTS, StartTime, "high")
          ELSE <<>>]
    /\ call = [p \in Procs |-> IdleCall]
    /\ res = [r \in Resolvers |-> IdleRes]
    /\ last = NoLast
    /\ scenarios = <<>>
    /\ replies = <<>>

ForecastJob ==
    /\ Quiet
    /\ Len(forecasts) <= MaxForecasts
    /\ run_forecasting_job

ForecastIngest ==
    /\ Quiet
    /\ forecasts = <<>>
    /\ \/ /\ Len(env_data["c1"]) < FORECAST_MIN_POINTS
          /\ \E aqi \in ForecastAQIs : EnvironmentDataCreate("c1", 25, aqi)
       \/ /\ Len(service_data["c1"]) < FORECAST_MIN_POINTS
          /\ \E stress \in ForecastStress : ServiceDataCreate("c1", stress)

ForecastRow ==
    /\ Quiet
    /\ Len(forecasts) < MaxForecasts
    /\ \E f \in {<<"aqi", 10000>>, <<"aqi", 20000>>, <<"pm25", 3499>>,
                 <<"waterStress", 70>>} :
          ForecastCreate("c1", f[1], now + Hours(12), f[2])

NextForecast ==
    \/ SeqStart
    \/ FamilyQuery(1)
    \/ ItemCheck(1)
    \/ ItemCreate(1)
    \/ ReturnGen(1)
    \/ SeqResolve
    \/ ResolveSave(1)
    \/ ForecastJob
    \/ ForecastIngest
    \/ ForecastRow
    \/ SeqTime

SpecForecast == InitForecast /\ [][NextForecast]_vars

\* the thresholds that apply to what a forecast row predicts: AQI, PM2.5 or
\* water stress, under the generator's name or the forecaster's
PredictedMetric(metric_type) ==
    IF metric_type \in {"aqi", "environment_aqi"} THEN "aqi"
    ELSE IF metric_type \in {"pm25", "environment_pm25"} THEN "pm25"
    ELSE IF metric_type \in {"waterStress", "service_water_supply_stress"}
    THEN "waterStress"
    ELSE "none"

\* C10 (as claimed): after a call, every forecast of the city for the next
\* 24 hours that predicts AQI, PM2.5 or water stress at or above the
\* warning threshold has an active forecast alert, critical from the
\* critical threshold on and warning below it; below the warning threshold
\* the call created no alert for it.
C10_ForecastBreachAlerts ==
    (/\ call[1].pc = "done" /\ ~call[1].error /\ call[1].t0 = now
     /\ call[1].city \in Cities) =>
        \A i \in 1..Len(forecasts) :
            LET f == forecasts[i]
                thresholds == FORECAST_THRESHOLDS(PredictedMetric(f.metric_type))
            IN  (/\ f.city = call[1].city
                 /\ f.target_date >= now
                 /\ f.target_date <= now + Hours(FORECAST_WINDOW_HOURS)
                 /\ thresholds # NoThresholds) =>
                    IF f.predicted_value >= thresholds.warning
                    THEN \E j \in 1..Len(alerts) :
                            /\ alerts[j].is_active
                            /\ alerts[j].city = f.city
                            /\ alerts[j].type = "forecast"
                            /\ alerts[j].sig = <<i>>
                            /\ alerts[j].severity =
                                 (IF f.predicted_value >= thresholds.critical
                                  THEN "critical" ELSE "warning")
                    ELSE \A j \in call[1].ids :
                            ~(alerts[j].type = "forecast"
                              /\ alerts[j].sig = <<i>>)

----------------------------------------------------------------------------
(* Analytics calls on stored readings.  City c1 starts with one of a few   *)
(* data sets (at most one reading per table, possibly an anomaly older     *)
(* than the scorer's lookback); city c2 starts with nothing.  Risk         *)
(* scoring, anomaly detection and simulation are called for known and      *)
(* unknown names, alert generation for unknown names; the write of a       *)
(* snapshot or of a scenario may fail.                                     *)

MaxSnapshots == 2
MaxScenarios == 1
MaxReadings == 1

CallerNames == CityNames \cup {"C1"}
UnknownNames == {name \in CallerNames : CityLookup(name) = "None"}

TrafficReadings == {30, 100}

\* <<AQI, PM2.5>>, <<traffic density>>, <<water stress, outages>>, old anomaly
DataSets ==
    {[env |-> <<>>, traffic |-> <<>>, service |-> <<>>, old |-> FALSE],
     [env |-> <<400, 400>>, traffic |-> <<30>>, service |-> <<40, 0>>,
      old |-> FALSE],
     [env |-> <<500, 500>>, traffic |-> <<100>>, service |-> <<80, 0>>,
      old |-> FALSE],
     [env |-> <<None, None>>, traffic |-> <<>>, service |-> <<100, 100>>,
      old |-> TRUE],
     [env |-> <<0, 0>>, traffic |-> <<30>>, service |-> <<40, 0>>,
      old |-> FALSE]}

EnvRow(t, reading) ==
    [timestamp |-> t, temperature |-> 25, aqi |-> reading[1],
     pm25 |-> reading[2], rainfall |-> 0]

TrafficRow(t, density_percent) ==
    [timestamp |-> t, zone |-> "A", density_percent |-> density_percent,
     congestion_level |-> IF density_percent >= 70 THEN "high" ELSE "low"]

ServiceRow(t, reading) ==
    [timestamp |-> t, water_supply_stress |-> reading[1],
     waste_collection_eff |-> 90, power_outage_count |-> reading[2]]

OldAnomaly ==
    [city |-> "c1", severity |-> "high",
     detected_at |-> StartTime - Days(ANOMALY_LOOKBACK_DAYS) - 1,
     resolved |-> FALSE]

ScenarioInput(city, traffic_change, heavy_restriction) ==
    [city |-> city, zone |-> "A", timeWindow |-> Window(8, 11),
     trafficDensityChange |-> traffic_change,
     heavyVehicleRestriction |-> heavy_restriction,
     baselineAQI |-> None, baselineTrafficDensity |-> None]

AnalyticsInputs ==
    {ScenarioInput("C1", 0 - 30, TRUE), ScenarioInput("nowhere", 0, FALSE)}

InitAnalytics ==
    /\ now = StartTime
    /\ alerts = <<>>
    /\ risk_scores = <<>>
    /\ forecasts = <<>>
    /\ sources = [n \in SourceSet |-> NoSource]
    /\ \E d \in DataSets :
          /\ anomalies = IF d.old THEN <<OldAnomaly>> ELSE <<>>
          /\ env_data = [c \in Cities |->
                 IF c = "c1" /\ d.env # <<>>
                 THEN <<EnvRow(StartTime - 1, d.env)>> ELSE <<>>]
          /\ traffic_data = [c \in Cities |->
                 IF c = "c1" /\ d.traffic # <<>>
                 THEN <<TrafficRow(StartTime - 1, d.traffic[1])>> ELSE <<>>]
          /\ service_data = [c \in Cities |->
                 IF c = "c1" /\ d.service # <<>>
                 THEN <<ServiceRow(StartTime - 1, d.service)>> ELSE <<>>]
    /\ call = [p \in Procs |-> IdleCall]
    /\ res = [r \in Resolvers |-> IdleRes]
    /\ last = NoLast
    /\ scenarios = <<>>
    /\ replies = <<>>

AnalyticsRisk ==
    /\ Quiet
    /\ Len(risk_scores) < MaxSnapshots
    /\ \E name \in CallerNames, ok \in BOOLEAN :
          RiskScorer_calculate_city_risk(name, ok)

AnalyticsDetect ==
    /\ Quiet
    /\ \E name \in CallerNames : AnomalyDetector_detect_all_anomalies(name)

AnalyticsSimulate ==
    /\ Quiet
    /\ Len(scenarios) < MaxScenarios
    /\ \E scenario_input \in AnalyticsInputs, ok \in BOOLEAN :
          ScenarioEngine_simulate(scenario_input, ok)

AnalyticsStart ==
    /\ Quiet
    /\ \E name \in UnknownNames : StartGen(1, name, TRUE)

AnalyticsAnomaly ==
    /\ Quiet
    /\ Len(anomalies) < MaxAnomalies
    /\ \E severity \in {"high", "low"} : store_anomaly("c1", severity)

AnalyticsTraffic ==
    /\ Quiet
    /\ \E c \in Cities :
          /\ Len(traffic_data[c]) < MaxReadings
          /\ \E d \in TrafficReadings :
                TrafficDataCreate(c, "A", d,
                                  IF d >= 70 THEN "high" ELSE "low")

NextAnalytics ==
    \/ AnalyticsRisk
    \/ AnalyticsDetect
    \/ AnalyticsSimulate
    \/ AnalyticsStart
    \/ ReturnGen(1)
    \/ AnalyticsAnomaly
    \/ AnalyticsTraffic

SpecAnalytics == InitAnalytics /\ [][NextAnalytics]_vars

\* a name that matches no City record
NoCity(name) == \A c \in Cities : Lower(c) # Lower(name)

\* C11: a call of detect_all_anomalies, calculate_city_risk or
\* generate_all_alerts with a city name that matches no City record returns
\* a result carrying an error, does not raise, and leaves storage as it
\* was: no Anomaly, RiskScore or Alert row (nor any other) is written.
C11_UnknownCityIsAnError ==
    [][/\ (/\ replies' # replies
           /\ replies'[1].op \in {"calculate_city_risk",
                                  "detect_all_anomalies"}
           /\ NoCity(replies'[1].city))
          => /\ replies'[1].error
             /\ ~replies'[1].raised
             /\ storage' = storage
       /\ \A p \in Procs :
             /\ (call[p].pc = "idle" /\ call'[p].pc # "idle"
                 /\ NoCity(call'[p].city))
                => /\ call'[p].pc = "done"
                   /\ Result(call'[p]).error
                   /\ Result(call'[p]).alerts_created = 0
                   /\ storage' = storage
             /\ (call[p].pc = "done" /\ call'[p].pc = "idle"
                 /\ NoCity(call[p].city))
                => /\ storage' = storage
                   /\ ~last'.clean /\ last'.created = 0]_vars

\* all three were called with an unknown name while a snapshot was stored:
\* the generator's call has returned and the latest analytics reply is the
\* error of a risk or detection call
C11_Witness ==
    /\ risk_scores # <<>>
    /\ last.fresh /\ NoCity(last.city) /\ last.city # ""
    /\ replies # <<>>
    /\ replies[1].op \in {"calculate_city_risk", "detect_all_anomalies"}
    /\ NoCity(replies[1].city)
    /\ replies[1].error

\* C12: every calculate_city_risk call on an existing city that returns
\* appends exactly one RiskScore row, for that city, whose score is the
\* weighted sum of the components the call returned and whose level is the
\* level it returned; no step modifies or deletes a stored RiskScore row,
\* so the history only grows, by one row per call.
C12_SnapshotsAppendOnly ==
    [][/\ Len(risk_scores') >= Len(risk_scores)
       /\ SubSeq(risk_scores', 1, Len(risk_scores)) = risk_scores
       /\ (/\ replies' # replies
           /\ replies'[1].op = "calculate_city_risk"
           /\ ~replies'[1].error /\ ~replies'[1].raised)
          => Len(risk_scores') = Len(risk_scores) + 1
       /\ risk_scores' # risk_scores
          => /\ Len(risk_scores') = Len(risk_scores) + 1
             /\ replies'[1].op = "calculate_city_risk"
             /\ ~replies'[1].error /\ ~replies'[1].raised
             /\ LET row == risk_scores'[Len(risk_scores')]
                    reply == replies'[1]
                IN  /\ row.city = CityLookup(reply.city)
                    /\ row.score =
                           overall_score(reply.components.environment,
                                         reply.components.traffic,
                                         reply.components.services,
                                         reply.components.anomalies)
                    /\ Round(row.score, 100) = reply.overall_score
                    /\ row.level = reply.risk_level
                    /\ row.level = determine_level(row.score)]_vars

\* two calls for one city stored two snapshots of different scores
C12_Witness ==
    /\ Len(risk_scores) = 2
    /\ risk_scores[1].city = risk_scores[2].city
    /\ risk_scores[1].score # risk_scores[2].score
    /\ replies[1].op = "calculate_city_risk"
    /\ ~replies[1].error /\ ~replies[1].raised

\* C13: when the write of the RiskScore snapshot in calculate_city_risk or
\* of the Scenario row in simulate fails, the call does not raise: it still
\* returns the result it computed.
C13_WriteFailureStillReturns ==
    (replies # <<>> /\ replies[1].write_failed) => ~replies[1].raised

\* the latest analytics reply is what calculate_city_risk returned for a
\* city that exists and has no reading and no anomaly stored
ScoredWithoutData ==
    /\ replies # <<>>
    /\ replies[1].op = "calculate_city_risk"
    /\ ~replies[1].error /\ ~replies[1].raised
    /\ LET c == CityLookup(replies[1].city)
       IN  /\ env_data[c] = <<>>
           /\ traffic_data[c] = <<>>
           /\ service_data[c] = <<>>
           /\ \A i \in 1..Len(anomalies) : anomalies[i].city # c

\* C14 (as claimed): for a city that exists but has no stored environment,
\* traffic, service or anomaly data, each of the four components is the
\* neutral 0.5, the composite score is exactly 0.5 and the level is medium.
C14_NoDataIsNeutral ==
    ScoredWithoutData =>
        /\ \A k \in DOMAIN replies[1].components :
              replies[1].components[k] = NEUTRAL_SCORE
        /\ replies[1].overall_score = 500
        /\ risk_scores[Len(risk_scores)].score = Thousandths(500)
        /\ replies[1].risk_level = "medium"

\* C14 (amended): for such a city the environment, traffic and services
\* components are the neutral 0.5 and the anomalies component is 0.0; the
\* composite score, returned and stored, is exactly 0.425 and the level is
\* medium.
C14_NoDataScore ==
    ScoredWithoutData =>
        /\ replies[1].components.environment = NEUTRAL_SCORE
        /\ replies[1].components.traffic = NEUTRAL_SCORE
        /\ replies[1].components.services = NEUTRAL_SCORE
        /\ replies[1].components.anomalies = 0
        /\ replies[1].overall_score = 425
        /\ risk_scores[Len(risk_scores)].score = Thousandths(425)
        /\ replies[1].risk_level = "medium"
        /\ risk_scores[Len(risk_scores)].level = "medium"

\* city c2, which never had data, was scored while city c1 had readings
C14_Witness ==
    /\ ScoredWithoutData
    /\ CityLookup(replies[1].city) = "c2"
    /\ env_data["c1"] # <<>>
    /\ risk_scores[Len(risk_scores)].city = "c2"

(***************************************************************************)
(* Levels of scores: every snapshot is written with the level of its       *)
(* score, for scores drawn from the whole range [0, 1] in                  *)
(* hundred-thousandths, the two thresholds and their neighbours included.  *)
(***************************************************************************)
MaxLevelRows == 2

LevelScores ==
    {0, 20000, 39999, 40000, 40001, 55000, 69999, 70000, 70001, 85000,
     100000}

InitEmpty ==
    /\ now = StartTime
    /\ alerts = <<>>
    /\ risk_scores = <<>>
    /\ forecasts = <<>>
    /\ sources = [n \in SourceSet |-> NoSource]
    /\ anomalies = <<>>
    /\ env_data = [c \in Cities |-> <<>>]
    /\ traffic_data = [c \in Cities |-> <<>>]
    /\ service_data = [c \in Cities |-> <<>>]
    /\ call = [p \in Procs |-> IdleCall]
    /\ res = [r \in Resolvers |-> IdleRes]
    /\ last = NoLast
    /\ scenarios = <<>>
    /\ replies = <<>>

NextLevel ==
    /\ Len(risk_scores) < MaxLevelRows
    /\ \E c \in Cities, score \in LevelScores : calculate_city_risk(c, score)

SpecLevel == InitEmpty /\ [][NextLevel]_vars

LevelRank(level) ==
    CASE level = "low" -> 0
      [] level = "medium" -> 1
      [] level = "high" -> 2

\* C15: determine_level is total and monotone over scores in [0, 1]: the
\* level of a score is high iff the score is at least 0.7, medium iff it is
\* at least 0.4 and below 0.7, low iff it is below 0.4, and of two scores the
\* larger never has the lower level.
C15_LevelsTotalAndMonotone ==
    \A i \in 1..Len(risk_scores) :
        LET score == risk_scores[i].score
            level == risk_scores[i].level
        IN  /\ level \in {"low", "medium", "high"}
            /\ level = "high" <=> score >= 70000
            /\ level = "medium" <=> (score >= 40000 /\ score < 70000)
            /\ level = "low" <=> score < 40000
            /\ \A j \in 1..Len(risk_scores) :
                  score <= risk_scores[j].score =>
                      LevelRank(level) <= LevelRank(risk_scores[j].level)

\* a score just below the upper threshold and the threshold itself were
\* given their levels
C15_Witness ==
    /\ Len(risk_scores) = 2
    /\ risk_scores[1].score = 69999 /\ risk_scores[1].level = "medium"
    /\ risk_scores[2].score = 70000 /\ risk_scores[2].level = "high"

(***************************************************************************)
(* Composite scores: the weighted sum is taken of four component scores    *)
(* drawn from [0, 1] in thousandths, the extremes included, and stored     *)
(* and returned as calculate_city_risk does.                               *)
(***************************************************************************)
MaxComposites == 1

ComponentScores == {0, 200, 300, 500, 800, 1000}

NextComposite ==
    /\ Len(risk_scores) < MaxComposites
    /\ \E c \in Cities, env_risk \in ComponentScores,
          traffic_risk \in ComponentScores,
          services_risk \in ComponentScores,
          anomaly_risk \in ComponentScores :
          RiskStored(c, c, Scored([environment |-> env_risk,
                                   traffic |-> traffic_risk,
                                   services |-> services_risk,
                                   anomalies |-> anomaly_risk]))

SpecComposite == InitEmpty /\ [][NextComposite]_vars

\* the latest analytics reply is a risk result
RiskReturned ==
    /\ replies # <<>>
    /\ replies[1].op = "calculate_city_risk"
    /\ ~replies[1].error /\ ~replies[1].raised

\* C16: the four component weights sum to exactly 1.0 and the composite is
\* the weighted sum 0.35 environment + 0.25 traffic + 0.25 services
\* + 0.15 anomalies of the component scores, so it lies in [0, 1] whenever
\* every component does; components 0.8, 0.3, 0.2, 0.0 give 0.405, medium.
C16_CompositeIsWeightedSum ==
    /\ WEIGHTS.environment + WEIGHTS.traffic + WEIGHTS.services
       + WEIGHTS.anomalies = 100
    /\ RiskReturned =>
          LET k == replies[1].components
              row == risk_scores[Len(risk_scores)]
          IN  (\A n \in DOMAIN k : k[n] >= 0 /\ k[n] <= 1000) =>
                  /\ row.score = 35 * k.environment + 25 * k.traffic
                                 + 25 * k.services + 15 * k.anomalies
                  /\ row.score >= 0 /\ row.score <= 100000
                  /\ (k.environment = 800 /\ k.traffic = 300
                      /\ k.services = 200 /\ k.anomalies = 0) =>
                         /\ row.score = 40500
                         /\ replies[1].overall_score = 405
                         /\ replies[1].risk_level = "medium"

\* the components 0.8, 0.3, 0.2 and 0.0 were scored
C16_Witness ==
    /\ RiskReturned
    /\ replies[1].components =
           [environment |-> 800, traffic |-> 300, services |-> 200,
            anomalies |-> 0]
    /\ risk_scores[Len(risk_scores)].score = 40500

(***************************************************************************)
(* Anomaly detection over stored series.  City c1 starts with a series of  *)
(* environment readings and possibly ten traffic or service readings; a    *)
(* further environment reading is ingested and detect_all_anomalies is     *)
(* called.  Temperatures are in degrees and may be negative.               *)
(***************************************************************************)
MaxDetectReadings == 1     \* readings ingested on top of a series

Repeat(value, n) == [i \in 1..n |-> value]

\* the stored series, oldest first
DetectSeries ==
    { [aqi |-> Repeat(23, 5) \o Repeat(24, 5),
       temperature |-> Repeat(0 - 1, 10)],
      [aqi |-> Repeat(10, 10), temperature |-> Repeat(25, 10)],
      [aqi |-> Repeat(23, 5) \o Repeat(24, 4), temperature |-> Repeat(25, 9)],
      [aqi |-> <<None, None>> \o Repeat(23, 4) \o Repeat(24, 4),
       temperature |-> Repeat(20, 5) \o Repeat(22, 5)] }

\* the readings ingested on top: <<temperature, aqi>>
DetectReadings ==
    {<<0 - 1, 24>>, <<0 - 1, 40>>, <<10, 24>>, <<25, 40>>, <<25, 10>>,
     <<25, 26>>, <<24, 27>>}

EarlierRows == {0, MIN_DATA_POINTS}

InitDetect ==
    /\ now = StartTime
    /\ alerts = <<>>
    /\ risk_scores = <<>>
    /\ forecasts = <<>>
    /\ sources = [n \in SourceSet |-> NoSource]
    /\ anomalies = <<>>
    /\ \E series \in DetectSeries :
          env_data = [c \in Cities |->
              IF c = "c1"
              THEN [i \in 1..Len(series.aqi) |->
                       [timestamp |-> StartTime - Len(series.aqi) - 1 + i,
                        temperature |-> series.temperature[i],
                        aqi |-> series.aqi[i], pm25 |-> 35, rainfall |-> 0]]
              ELSE <<>>]
    /\ \E n \in EarlierRows :
          traffic_data = [c \in Cities |->
              IF c = "c1"
              THEN [i \in 1..n |-> TrafficRow(StartTime - n - 1 + i, 50)]
              ELSE <<>>]
    /\ \E n \in EarlierRows :
          service_data = [c \in Cities |->
              IF c = "c1"
              THEN [i \in 1..n |->
                       ServiceRow(StartTime - n - 1 + i, <<40, 0>>)]
              ELSE <<>>]
    /\ call = [p \in Procs |-> IdleCall]
    /\ res = [r \in Resolvers |-> IdleRes]
    /\ last = NoLast
    /\ scenarios = <<>>
    /\ replies = <<>>

\* the readings of a city all lie before the clock
NewerThanAll(rows) == \A i \in 1..Len(rows) : rows[i].timestamp < now

DetectCall ==
    \E name \in CallerNames : AnomalyDetector_detect_all_anomalies(name)

DetectEnvironment ==
    /\ NewerThanAll(env_data["c1"])
    /\ Len(env_data["c1"]) < MIN_DATA_POINTS + MaxDetectReadings
    /\ \E reading \in DetectReadings :
          EnvironmentDataCreate("c1", reading[1], reading[2])

NextDetect ==
    \/ DetectCall
    \/ DetectEnvironment

SpecDetect == InitDetect /\ [][NextDetect]_vars

\* the latest analytics reply is what detect_all_anomalies answered for
\* city c, and no reading of c was stored since
Detected(c) ==
    /\ replies # <<>>
    /\ replies[1].op = "detect_all_anomalies"
    /\ CityLookup(replies[1].city) = c
    /\ replies[1].seen = RowCounts(c)

EnvironmentChecks ==
    {[metric |-> "AQI", field |-> "aqi"],
     [metric |-> "PM2.5", field |-> "pm25"],
     [metric |-> "Temperature", field |-> "temperature"]}

\* the environment anomalies of the latest reply for one metric
Emitted(metric) ==
    IF replies[1].raised THEN {}
    ELSE {replies[1].environment_anomalies[i] :
             i \in {j \in 1..Len(replies[1].environment_anomalies) :
                       replies[1].environment_anomalies[j].metric = metric}}

\* the severity the thresholds 1.5, 2.0 and 3.0 give a z-score of at least
\* 1.5 in size
SeverityOf(z) ==
    IF 4 * z.num >= 36 * z.den THEN "high"
    ELSE IF 4 * z.num >= 16 * z.den THEN "medium"
    ELSE "low"

\* the mean of a series in hundredths, rounded
MeanOf(values) ==
    (IF SumSeq(values) >= 0 THEN 1 ELSE 0 - 1)
    * Round(100 * Abs(SumSeq(values)), Len(values))

\* C17: for every metric check with at least 10 samples and a standard
\* deviation above zero, an anomaly record is emitted iff |z| >= 1.5; its
\* severity is low below 2.0, medium below 3.0 and high from 3.0 on, and its
\* direction is higher iff z > 0; mean 25, stdev 5 and reading 40 give
\* z = 3.0, high, higher, deviation 60%.  (Stated of the environment checks
\* of a city whose traffic and service checks do not run.)
C17_EmittedIffDeviant ==
    \A c \in Cities :
        (/\ Detected(c)
         /\ replies[1].seen[2] < 10
         /\ replies[1].seen[3] < 10) =>
            \A m \in EnvironmentChecks :
                LET historical_data == HistoricalData(env_data[c], now)
                    values == ColumnValues(historical_data, m.field)
                IN  (/\ Len(values) >= 10
                     /\ historical_data[1][m.field] # None
                     /\ SpreadOf(values) > 0) =>
                        LET z == ZScore(historical_data[1][m.field], values)
                        IN  /\ Emitted(m.metric) # {}
                               <=> 4 * z.num >= 9 * z.den
                            /\ \A a \in Emitted(m.metric) :
                                  /\ a.severity = SeverityOf(z)
                                  /\ a.direction = "higher" <=> z.positive
                            /\ (/\ m.field = "aqi"
                                /\ values = <<40>> \o Repeat(24, 5)
                                            \o Repeat(23, 5)) =>
                                   \E a \in Emitted(m.metric) :
                                       /\ a.severity = "high"
                                       /\ a.direction = "higher"
                                       /\ a.expected_value = 2500
                                       /\ a.deviation_percent = 600

\* C18: the mean and standard deviation a reading is scored against are
\* those of the window without the reading itself: the expected value of an
\* emitted anomaly is the mean of the earlier values, which vary, and its
\* severity is that of the reading's z-score against them.
C18_BaselineExcludesCandidate ==
    \A c \in Cities :
        (Detected(c) /\ ~replies[1].raised) =>
            \A m \in EnvironmentChecks : \A a \in Emitted(m.metric) :
                LET values == ColumnValues(HistoricalData(env_data[c], now),
                                           m.field)
                    baseline == Tail(values)
                IN  /\ a.expected_value = MeanOf(baseline)
                    /\ SpreadOf(baseline) > 0
                    /\ a.severity = SeverityOf(ZScore(a.current_value,
                                                      baseline))

\* C19: for an existing city and any stored samples detect_all_anomalies
\* never raises and returns the three lists with total_count the sum of
\* their lengths; fewer than 10 samples, a zero standard deviation or a zero
\* mean yield no error.
C19_DetectNeverRaises ==
    \A c \in Cities :
        Detected(c) =>
            /\ ~replies[1].raised
            /\ ~replies[1].error
            /\ replies[1].total_count =
                   Len(replies[1].environment_anomalies)
                   + Len(replies[1].traffic_anomalies)
                   + Len(replies[1].service_anomalies)

(***************************************************************************)
(* Simulations: scenarios are simulated for known and unknown cities,      *)
(* zones, time windows, traffic changes and supplied baselines, while an   *)
(* environment reading of city c1 may be ingested.                         *)
(***************************************************************************)
MaxSimulations == 2     \* Scenario rows

SimulateInput(city, zone, window, change, heavy, aqi, density) ==
    [city |-> city, zone |-> zone, timeWindow |-> window,
     trafficDensityChange |-> change, heavyVehicleRestriction |-> heavy,
     baselineAQI |-> aqi, baselineTrafficDensity |-> density]

SimulateInputs ==
    {SimulateInput("c1", "A", Window(8, 11), 0 - 30, TRUE, None, None),
     SimulateInput("C1", "A", Window(8, 11), 0 - 30, TRUE, None, None),
     SimulateInput("c1", "A", Window(8, 11), 0 - 20, TRUE, None, None),
     SimulateInput("c1", "C", Window(23, 5), 0 - 10, FALSE, 150, 50),
     SimulateInput("c1", "B", Window(12, 15), 25, FALSE, 150, None),
     SimulateInput("c1", "A", <<NotAnHour>>, 0, TRUE, None, 50),
     SimulateInput("c2", "C", Window(17, 20), 0, FALSE, None, None),
     SimulateInput("nowhere", "A", Window(8, 11), 0 - 30, FALSE, None, None)}

SimulateReadings == {0, 80}     \* AQI

SimulateCall ==
    /\ Len(scenarios) < MaxSimulations
    /\ \E scenario_input \in SimulateInputs, ok \in BOOLEAN :
          ScenarioEngine_simulate(scenario_input, ok)

SimulateEnvironment ==
    /\ NewerThanAll(env_data["c1"])
    /\ Len(env_data["c1"]) < MaxReadings
    /\ \E aqi \in SimulateReadings : EnvironmentDataCreate("c1", 25, aqi)

NextSimulate ==
    \/ SimulateCall
    \/ SimulateEnvironment

SpecSimulate == InitEmpty /\ [][NextSimulate]_vars

\* the latest analytics reply is a simulation result
Simulated ==
    /\ replies # <<>>
    /\ replies[1].op = "simulate"
    /\ ~replies[1].raised

\* C20: two simulate calls with identical input and unchanged stored
\* baseline readings return identical impacts and identical
\* overall_confidence; the Scenario row the first call persisted has no
\* influence on the second call's result.
C20_SimulateIsDeterministic ==
    (Simulated /\ replies[1].prior # NoPrior) =>
        /\ replies[1].impacts = replies[1].prior.impacts
        /\ replies[1].overall_confidence = replies[1].prior.overall_confidence

\* the same scenario with a traffic change was simulated twice, over the
\* same readings, and persisted both times
C20_Witness ==
    /\ Simulated
    /\ replies[1].prior # NoPrior
    /\ replies[1].input.trafficDensityChange # 0
    /\ replies[1].scenario_id = 2
    /\ Len(scenarios) = 2
    /\ scenarios[1].city = scenarios[2].city

\* the AQI baseline the latest persisted simulation worked with, after the
\* zone factor, in hundredths
BaselineUsed == scenarios[replies[1].scenario_id].inputs.baselineAQI

\* C23: a baseline AQI supplied with the scenario input is the baseline the
\* simulation uses (before the zone factor), whatever readings are stored; a
\* stored reading stands in only for a baseline that was not supplied.
C23_SuppliedBaselineUsed ==
    (Simulated /\ replies[1].scenario_id > 0
               /\ replies[1].input.baselineAQI \notin {None, 0}) =>
        BaselineUsed = replies[1].input.baselineAQI
            * zone_characteristics(replies[1].input.zone).baseline_aqi_factor

\* the latest simulation emitted an impact of this metric
HasImpact(metric) ==
    \E i \in 1..Len(replies[1].impacts) : replies[1].impacts[i].metric = metric

ImpactMetrics ==
    {"Air Quality Index (AQI)", "PM2.5 Concentration", "Noise Pollution",
     "Road Infrastructure Stress", "Travel Time",
     "Traffic in Adjacent Zones", "Zone Baseline Assessment",
     "Commuter Fuel Cost"}

\* the impacts every reading of the rule agrees on: those of the heavy
\* vehicle restriction, travel time, spillover, fuel cost and the assessment
ImpactsByInput ==
    LET traffic_change == replies[1].input.trafficDensityChange
        heavy_restriction == replies[1].input.heavyVehicleRestriction
    IN  /\ \A i \in 1..Len(replies[1].impacts) :
              replies[1].impacts[i].metric \in ImpactMetrics
        /\ HasImpact("Zone Baseline Assessment")
        /\ HasImpact("PM2.5 Concentration") <=> heavy_restriction
        /\ HasImpact("Noise Pollution") <=> heavy_restriction
        /\ HasImpact("Road Infrastructure Stress") <=> heavy_restriction
        /\ HasImpact("Travel Time") <=> traffic_change < 0
        /\ HasImpact("Traffic in Adjacent Zones")
           <=> (traffic_change > 20 \/ traffic_change < 0 - 20)
        /\ HasImpact("Commuter Fuel Cost") <=> traffic_change # 0

\* C21 (as claimed): the impacts emitted are determined by the inputs; the
\* AQI impact and the zone baseline assessment are always emitted, PM2.5,
\* noise and road stress iff the restriction is active, travel time iff
\* traffic_change < 0, spillover iff |traffic_change| > 20, fuel cost iff
\* traffic_change # 0.
C21_AqiAlwaysEmitted ==
    Simulated =>
        /\ ImpactsByInput
        /\ HasImpact("Air Quality Index (AQI)")

\* C21 (amended): as claimed, except that the AQI impact is emitted iff
\* traffic_change # 0.
C21_ImpactsByInput ==
    Simulated =>
        /\ ImpactsByInput
        /\ HasImpact("Air Quality Index (AQI)")
           <=> replies[1].input.trafficDensityChange # 0

\* a restriction without a traffic change was simulated: the three impacts
\* of the restriction and the assessment, no AQI impact
C21_Witness ==
    /\ Simulated
    /\ replies[1].input.trafficDensityChange = 0
    /\ replies[1].input.heavyVehicleRestriction
    /\ Len(replies[1].impacts) = 4
    /\ HasImpact("PM2.5 Concentration")
    /\ ~HasImpact("Air Quality Index (AQI)")

(***************************************************************************)
(* Time windows: a scenario of a city that is not stored (nothing is       *)
(* persisted) is simulated for every window between two different full     *)
(* hours of the day and for windows that do not parse.                     *)
(***************************************************************************)
DayHours == 0..23

BrokenWindows ==
    {<<NotAnHour>>, <<Hour(8)>>, <<Hour(8), NotAnHour>>,
     <<NotAnHour, Hour(11)>>, <<Hour(8), Hour(9), Hour(10)>>}

TimeWindows ==
    {Window(hours[1], hours[2]) :
        hours \in {h \in DayHours \X DayHours : h[1] # h[2]}}
    \cup BrokenWindows

WindowInputs ==
    {SimulateInput("nowhere", "B", time_window, 0 - 30, TRUE, 150, 50) :
        time_window \in TimeWindows}

WindowCall ==
    \E scenario_input \in WindowInputs :
        ScenarioEngine_simulate(scenario_input, TRUE)

NextWindow == WindowCall

SpecWindow == InitEmpty /\ [][NextWindow]_vars

\* the full hours a window from start_hour:00 to end_hour:00 covers; a
\* window whose end lies before its start runs over midnight
HoursOf(start_hour, end_hour) ==
    IF start_hour < end_hour THEN start_hour..(end_hour - 1)
    ELSE (start_hour..23) \cup (0..(end_hour - 1))

PeakHours == (8..10) \cup (17..20)      \* 08:00-11:00 and 17:00-21:00
NightHours == (22..23) \cup (0..5)      \* 22:00-06:00

\* the multiplier the latest simulation worked with, in tenths
MultiplierUsed ==
    LET assessment == SelectSeq(replies[1].impacts, LAMBDA i :
                          i.metric = "Zone Baseline Assessment")
    IN  assessment[1].explanation.multiplier

\* C22: a window HH:MM-HH:MM gets multiplier 1.4 iff it overlaps 08:00-11:00
\* or 17:00-21:00, otherwise 0.6 iff it overlaps 22:00-06:00, otherwise 1.0;
\* a window that does not parse gets 1.0 and nothing is raised.
C22_WindowClassification ==
    (replies # <<>> /\ replies[1].op = "simulate") =>
        LET time_window == replies[1].input.timeWindow
        IN  /\ ~replies[1].raised
            /\ IF time_window \in BrokenWindows
               THEN MultiplierUsed = 10
               ELSE LET hours == HoursOf(time_window[1].hour,
                                         time_window[2].hour)
                    IN  MultiplierUsed =
                            IF hours \cap PeakHours # {} THEN 14
                            ELSE IF hours \cap NightHours # {} THEN 6
                            ELSE 10

----------------------------------------------------------------------------
(* The weather fetch job.  The outcome of the two API requests of a city   *)
(* and of the insert is an input of the job.                               *)

MaxFetchRows == 2       \* EnvironmentData rows per city stored by the job
MaxFetchJobs == 4       \* runs of the job, one per quarter hour
MaxFetchFailures == 3   \* cap of the count of consecutive failed fetches

DEFAULT_FETCH_AQI == 100

FetchOutcomes ==
    {"ok", "no_air_quality", "timeout", "non_200", "network_error",
     "create_failed"}

FetchReadings == {<<25, 80>>}     \* <<temperature, aqi>> the API answers

\* f"sensor-env-{city_name.lower()}"
SourceOf(city_name) ==
    IF Lower(city_name) = "c1" THEN "sensor-env-c1" ELSE "sensor-env-c2"

FetchSources == {SourceOf(c) : c \in Cities}

\* WeatherFetcher.fetch_complete_data: None when the weather request failed,
\* default air quality when only the air quality request failed
fetch_complete_data(outcome, reading) ==
    IF outcome \in {"timeout", "non_200", "network_error"}
    THEN [data |-> FALSE, temperature |-> None, aqi |-> None]
    ELSE [data |-> TRUE, temperature |-> reading[1],
          aqi |-> IF outcome = "no_air_quality" THEN DEFAULT_FETCH_AQI
                  ELSE reading[2]]

\* fetch_and_store_weather: what it returns and the row it stores, if any
fetch_and_store_weather(city_name, outcome, reading) ==
    LET data == fetch_complete_data(outcome, reading)
    IN  IF ~data.data
        THEN [success |-> FALSE, stored |-> <<>>]
        ELSE IF CityLookup(city_name) = "None" \/ outcome = "create_failed"
        THEN [success |-> FALSE, stored |-> <<>>]
        ELSE [success |-> TRUE,
              stored |-> <<[timestamp |-> now, temperature |-> data.temperature,
                            aqi |-> data.aqi, pm25 |-> 35, rainfall |-> 0]>>]

\* the consecutive failed fetches of a city up to the latest job (history)
FailedFetches(c) ==
    IF replies # <<>> /\ replies[1].op = "fetch" THEN replies[1].failed[c]
    ELSE 0

\* fetch_environment_data: fetch_all_cities_weather inside try/except
fetch_environment_data(outcomes, reading) ==
    LET result == [c \in Cities |->
                      fetch_and_store_weather(c, outcomes[c], reading)]
    IN  /\ env_data' = [c \in Cities |-> env_data[c] \o result[c].stored]
        /\ sources' = [n \in DOMAIN sources |->
               IF \E c \in Cities : n = SourceOf(c) /\ result[c].success
               THEN SourceAfter(sources[n], TRUE) ELSE sources[n]]
        /\ replies' = Push(
               [op |-> "fetch", raised |-> FALSE, at |-> now,
                success_count |->
                    Cardinality({c \in Cities : result[c].success}),
                failed |-> [c \in Cities |->
                    IF result[c].success THEN 0
                    ELSE IF FailedFetches(c) < MaxFetchFailures
                         THEN FailedFetches(c) + 1 ELSE MaxFetchFailures]])
        /\ last' = Stale
        /\ UNCHANGED <<now, alerts, risk_scores, anomalies, forecasts,
                       traffic_data, service_data, call, res, scenarios>>

InitFetch ==
    /\ now = StartTime
    /\ alerts = <<>>
    /\ risk_scores = <<>>
    /\ forecasts = <<>>
    /\ sources = [n \in FetchSources |-> NoSource]
    /\ anomalies = <<>>
    /\ env_data = [c \in Cities |-> <<>>]
    /\ traffic_data = [c \in Cities |-> <<>>]
    /\ service_data = [c \in Cities |-> <<>>]
    /\ call = [p \in Procs |-> IdleCall]
    /\ res = [r \in Resolvers |-> IdleRes]
    /\ last = NoLast
    /\ scenarios = <<>>
    /\ replies = <<>>

\* when the job ran last (history)
LastFetchAt == IF replies = <<>> THEN NULL ELSE replies[1].at

\* the job runs once per quarter hour
FetchJob ==
    /\ LastFetchAt < now
    /\ \E outcomes \in [Cities -> FetchOutcomes], reading \in FetchReadings :
          /\ \A c \in Cities :
                fetch_and_store_weather(c, outcomes[c], reading).success
                    => Len(env_data[c]) < MaxFetchRows
          /\ fetch_environment_data(outcomes, reading)

FetchTick ==
    /\ now < StartTime + MaxFetchJobs - 1
    /\ LastFetchAt = now
    /\ Tick(1)

NextFetch ==
    \/ FetchJob
    \/ FetchTick

SpecFetch == InitFetch /\ [][NextFetch]_vars

\* C24: a failed weather/AQI fetch of a city (timeout, non-200 answer, network
\* error) never lets an exception leave the fetch job and is recorded as a
\* failed attempt against the data source of the city, so that repeated
\* consecutive failures leave the source marked offline.
C24_FailedFetchRecorded ==
    (replies # <<>> /\ replies[1].op = "fetch") =>
        /\ ~replies[1].raised
        /\ \A c \in Cities :
              LET source == sources[SourceOf(c)]
              IN  /\ FailedFetches(c) > 0 =>
                        source.exists /\ source.failure_count > 0
                  /\ FailedFetches(c) >= OFFLINE_AFTER_FAILURES =>
                        source.exists /\ ~source.is_online

----------------------------------------------------------------------------
(* Repeated generation: requests that do not overlap, over risk snapshots  *)
(* and data sources, with room for a third alert.                          *)

MaxRepeatAlerts == 3    \* no new request starts once the table holds this many

RepeatStart ==
    /\ Quiet
    /\ Len(alerts) < MaxRepeatAlerts
    /\ \E name \in CityNames : StartGen(1, name, TRUE)

NextRepeat ==
    \/ RepeatStart
    \/ FamilyQuery(1)
    \/ ItemCheck(1)
    \/ ItemCreate(1)
    \/ ReturnGen(1)
    \/ SeqResolve
    \/ ResolveSave(1)
    \/ SeqRisk
    \/ SeqSource
    \/ SeqTime

SpecRepeat == InitEmpty /\ [][NextRepeat]_vars

\* the fact alert number i was raised for still calls for an alert of city c
StillQualifies(i, c) ==
    \E k \in 1..Len(FamilyOrder) :
        LET f == FamilyOrder[k]
            items == Query(f, c, now)
        IN  \E n \in 1..Len(items) :
                /\ Severity(f, items[n]) # NoAlert
                /\ alerts[i].type = AlertType(f)
                /\ MetadataContains(alerts[i], SigKey(f), Sig(f, items[n]))

\* C25: resolving an alert does not silence its fact: once a
\* generate_all_alerts call for the city has returned, every resolved alert
\* of the city whose fact still qualifies has an active successor of the same
\* (city, type, signature), so one signature gets alert after alert.
C25_ResolvedFactRaisedAgain ==
    \A p \in Procs :
        (/\ call[p].pc = "done"
         /\ ~call[p].error
         /\ \A k \in 1..Len(FamilyOrder) : ~call[p].failed[k]) =>
            \A i \in 1..Len(alerts) :
                (/\ ~alerts[i].is_active
                 /\ alerts[i].city = call[p].city
                 /\ StillQualifies(i, call[p].city)) =>
                    \E j \in 1..Len(alerts) :
                        /\ alerts[j].is_active
                        /\ SameSignature(alerts[i], alerts[j])

----------------------------------------------------------------------------
(* Ingestion: environment readings are posted for a city by a named        *)
(* source; the insert may fail.                                            *)

MaxIngestRows == 2      \* EnvironmentData rows per city

IngestReadings == {<<25, 80>>, <<31, 150>>}     \* <<temperature, aqi>>

\* ingest_environment_data from the city lookup on; ok = FALSE: the insert
\* raises.  The reply also records the source row the call found (history).
ingest_environment_data(city_name, source, reading, ok) ==
    LET reply == [op |-> "ingest", source |-> source,
                  before |-> sources[source]]
    IN  IF city_name \notin Cities
        THEN /\ replies' = Push(reply @@ [status |-> 404])
             /\ UNCHANGED <<now, storage, call, res, last>>
        ELSE /\ env_data' = [env_data EXCEPT ![city_name] =
                    IF ok
                    THEN Append(@, [timestamp |-> now,
                                    temperature |-> reading[1],
                                    aqi |-> reading[2],
                                    pm25 |-> 35, rainfall |-> 0])
                    ELSE @]
             /\ sources' = [sources EXCEPT ![source] = SourceAfter(@, ok)]
             /\ replies' = Push(reply @@
                    [status |-> IF ok THEN 201 ELSE 500])
             /\ last' = Stale
             /\ UNCHANGED <<now, alerts, risk_scores, anomalies, forecasts,
                            traffic_data, service_data, call, res, scenarios>>

IngestEnvironment ==
    \E city_name \in CityNames, source \in SourceSet,
       reading \in IngestReadings, ok \in BOOLEAN :
        /\ city_name \in Cities =>
              IF ok THEN Len(env_data[city_name]) < MaxIngestRows
              ELSE sources[source].failure_count < MaxFailures
        /\ ingest_environment_data(city_name, source, reading, ok)

NextIngest == IngestEnvironment

SpecIngest == InitEmpty /\ [][NextIngest]_vars

\* the latest call was an ingestion attempt that reached the insert
Ingested == replies # <<>> /\ replies[1].op = "ingest"

\* C28: whatever update_source_status calls have happened, the one creating
\* the source row included, a source that is not online has failed three or
\* more times in a row; a successful attempt leaves the source online with a
\* failure count of 0; a failed attempt raises the failure count by one.
C28_OfflineAfterThreeFailures ==
    /\ \A n \in SourceSet :
          (sources[n].exists /\ ~sources[n].is_online) =>
              sources[n].failure_count >= OFFLINE_AFTER_FAILURES
    /\ (Ingested /\ replies[1].status = 201) =>
          /\ sources[replies[1].source].is_online
          /\ sources[replies[1].source].failure_count = 0
    /\ (Ingested /\ replies[1].status = 500) =>
          sources[replies[1].source].failure_count
              = replies[1].before.failure_count + 1

----------------------------------------------------------------------------
(* The forecasting job run again and again over the readings of the        *)
(* forecast specification, once an hour or sooner.                         *)

MaxForecastRuns == 2    \* runs of the forecasting job

JobTick == Hours(1)

\* the rows one run of the job saves now
JobRows == save_forecasts_to_db(<<>>, CityForecasts("c1", now))
               \o save_forecasts_to_db(<<>>, CityForecasts("c2", now))

ForecastAgain ==
    /\ Len(forecasts) < MaxForecastRuns * Len(JobRows)
    /\ run_forecasting_job

JobTime == Tick(JobTick)

NextJobs ==
    \/ ForecastAgain
    \/ JobTime

SpecJobs == InitForecast /\ [][NextJobs]_vars

\* C29: however often run_forecasting_job has run, there is at most one
\* Forecast row per (city, metric_type, target_date): saving a forecast of a
\* key that has a row updates the row instead of adding one.
C29_OneForecastPerKey ==
    \A i, j \in 1..Len(forecasts) :
        (/\ forecasts[i].city = forecasts[j].city
         /\ forecasts[i].metric_type = forecasts[j].metric_type
         /\ forecasts[i].target_date = forecasts[j].target_date) => i = j

----------------------------------------------------------------------------
(* Scenario inputs: one simulation of a city without a City row, over the  *)
(* zones, kinds of time window, traffic changes around the thresholds of   *)
(* the impacts, and supplied or missing baselines.                         *)

InputZones == {"A", "B", "C"}
InputWindows == {Window(8, 11), Window(12, 15), Window(23, 5), <<NotAnHour>>}
InputChanges == {0 - 30, 0 - 21, 0 - 20, 0 - 10, 0, 10, 20, 25}
InputAQIs == {None, 150}
InputDensities == {None, 50}

ScenarioInputs ==
    {SimulateInput("nowhere", i[1], i[2], i[3], i[4], i[5], i[6]) :
        i \in InputZones \X InputWindows \X InputChanges \X BOOLEAN
                \X InputAQIs \X InputDensities}

InputCall ==
    \E scenario_input \in ScenarioInputs :
        ScenarioEngine_simulate(scenario_input, TRUE)

NextInputs == InputCall

SpecInputs == InitEmpty /\ [][NextInputs]_vars

\* C30: every simulation emits at least one impact, and its
\* overall_confidence, the arithmetic mean of the confidences of the emitted
\* impacts, is 0.6 or more: simulate gives neither the low-confidence
\* recommendation nor the fallback confidence 0.5 of a result without
\* impacts.
C30_ConfidenceAtLeastSixty ==
    Simulated =>
        LET impacts == replies[1].impacts
            n == Len(impacts)
            sum == SumSeq([i \in 1..n |-> impacts[i].confidence])
            overall == replies[1].overall_confidence
        IN  /\ n >= 1
            /\ sum >= LOW_CONFIDENCE * n
            \* overall is the mean sum / n in thousandths, rounded
            /\ 2 * Abs(overall * n - 10 * sum) <= n
            /\ overall >= 10 * LOW_CONFIDENCE
            /\ overall # 500
            /\ replies[1].recommendation # "low confidence"

\* C30 witness: a simulation emitted all eight impacts, the one of lowest
\* confidence (spillover, 0.65) among them.
C30_Witness ==
    /\ Simulated
    /\ Len(replies[1].impacts) = 8
    /\ \E i \in 1..8 : replies[1].impacts[i].confidence = 65
    /\ replies[1].overall_confidence < 750

====
